---- MODULE Spec2Model ----
(***************************************************************************)
(* Planning-poker coordination core: the WebSocket protocol handlers of    *)
(* server/routes.ts over the in-memory record store of server/storage.ts.  *)
(*                                                                         *)
(* Every handler is an async function.  Each `await storage.x(...)` is a   *)
(* suspension point: the store call itself runs when it is called (the     *)
(* MemStorage methods do their work synchronously and return a resolved    *)
(* promise), the code after the await runs in a later step.  A step of the *)
(* model is therefore: resume after the previous await, run the            *)
(* synchronous code, perform the next store call.  Steps of different      *)
(* handlers in progress interleave freely.                                 *)
(***************************************************************************)
EXTENDS Integers, Sequences, FiniteSets, TLC

(* ------------------------------ bounds --------------------------------- *)
\* sockets that may ever connect
MaxConns == 2
\* handlers that may be in progress (suspended at an await) at once
MaxTasks == 2
\* participant rows the store may hold
MaxParticipants == 2
\* vote identifiers the store may hand out
MaxVotes == 3
\* story rows the store may hold
MaxStories == 2

Conns == 1..MaxConns
TaskIds == 1..MaxTasks
SessionIds == {"S1", "S2"}
Names == {"ann", "bob"}
Values == {"5", "8"}
\* titles and links are strings, kept as sequences of characters
Titles == {<<"t">>, <<"t", "(">>}
Links == {<<"l">>}
\* free text a Set Story event may carry
FreeTexts == {<<"x">>, <<"t", " ", "(", "l", ")">>}

(* --------------------------- JS values --------------------------------- *)
\* the JavaScript value undefined, where an object is expected
Undefined == [undefined |-> TRUE]
\* the JavaScript value undefined, where a session identifier is expected
NoId == "undefined"
\* the JavaScript value null of Session.currentStory
Null == <<"null">>
\* the empty string
Empty == <<>>
Truthy(str) == str # Null /\ str # Empty
VotingSystems == {"fibonacci", "tshirt", "standard"}

VARIABLES
    sock,            \* socket -> "new" | "open" | "closed" (readyState), or "failing":
                     \* readyState OPEN and socket.send throws
    clients,         \* the registry Map<WebSocket, ClientConnection>: its keys, in insertion order
    clientObj,       \* socket -> the ClientConnection object {participant, sessionId}
    sessionMap,      \* MemStorage.sessionMap: id -> Session
    participantMap,  \* MemStorage.participantMap: rows in insertion order, id = index
    voteMap,         \* MemStorage.voteMap: rows in insertion order
    voteIdCounter,   \* MemStorage.voteIdCounter
    storyMap,        \* MemStorage.storyMap: rows in insertion order, id = index
    tasks,           \* handlers in progress: position (pc) and local variables
    out              \* what the last step sent: direct sends and broadcast calls, in order

vars == <<sock, clients, clientObj, sessionMap, participantMap, voteMap,
          voteIdCounter, storyMap, tasks, out>>
store == <<sessionMap, participantMap, voteMap, voteIdCounter, storyMap>>
registry == <<sock, clients, clientObj>>

Idle == [pc |-> "idle"]
FreshClient == [participant |-> Undefined, sessionId |-> NoId]

Range(s) == {s[k] : k \in DOMAIN s}
Registered(c) == c \in Range(clients)
Bound(c) == clientObj[c].participant # Undefined /\ clientObj[c].sessionId # NoId

(* ------------------------------ store ---------------------------------- *)
participantIdCounter == Len(participantMap) + 1
storyIdCounter == Len(storyMap) + 1

getSession(id) == IF id \in DOMAIN sessionMap THEN sessionMap[id] ELSE Undefined

\* the row createSession stores: revealed false, no current story, the voting
\* system of the payload
NewSessionOf(id, votingSystem) ==
    [id |-> id, revealed |-> FALSE, currentStory |-> Empty,
     votingSystem |-> votingSystem]
NewSession(id) == NewSessionOf(id, "fibonacci")

\* the map after createSession: Map.set replaces an entry of the same key
createSession(id, votingSystem) == (id :> NewSessionOf(id, votingSystem)) @@ sessionMap

\* updateSession that builds the merged row and does not store it
updateSessionLost(id, data) == sessionMap

\* the map after updateSession(id, data); unchanged when the session is missing
updateSession(id, data) ==
    IF id \in DOMAIN sessionMap
    THEN [sessionMap EXCEPT ![id] =
            [f \in DOMAIN sessionMap[id] |->
                IF f \in DOMAIN data THEN data[f] ELSE sessionMap[id][f]]]
    ELSE sessionMap
\* what updateSession returns: the merged row, or undefined
updateSessionResult(id, data) ==
    IF id \in DOMAIN sessionMap THEN updateSession(id, data)[id] ELSE Undefined

\* a row that is an administrator's whatever the caller passes
addParticipantRowAdmin(sid, name, isAdmin) ==
    [id |-> participantIdCounter, sessionId |-> sid, name |-> name,
     isAdmin |-> TRUE, connected |-> TRUE]
\* the row addParticipant inserts: identifier from the counter, connected
addParticipantRow(sid, name, isAdmin) ==
    [id |-> participantIdCounter, sessionId |-> sid, name |-> name,
     isAdmin |-> isAdmin, connected |-> TRUE]
addParticipant(sid, name, isAdmin) ==
    Append(participantMap, addParticipantRow(sid, name, isAdmin))

\* Array.find over the rows in insertion order: the first match, or undefined
getParticipantByName(sid, name) ==
    LET hits == {k \in DOMAIN participantMap :
                    participantMap[k].sessionId = sid /\ participantMap[k].name = name}
    IN IF hits = {} THEN Undefined
       ELSE participantMap[CHOOSE k \in hits : \A m \in hits : k <= m]

\* Array.filter over the rows in insertion order
getSessionParticipants(sid) ==
    SelectSeq(participantMap, LAMBDA p : p.sessionId = sid)

\* the map after updateParticipant(id, {connected: b}); unchanged for an unknown id
updateParticipant(id, b) ==
    IF id \in DOMAIN participantMap
    THEN [participantMap EXCEPT ![id].connected = b]
    ELSE participantMap

\* Array.find over the votes in insertion order
getVote(pid, sid) ==
    LET hits == {k \in DOMAIN voteMap :
                    voteMap[k].participantId = pid /\ voteMap[k].sessionId = sid}
    IN IF hits = {} THEN Undefined
       ELSE voteMap[CHOOSE k \in hits : \A m \in hits : k <= m]

getSessionVotes(sid) == SelectSeq(voteMap, LAMBDA v : v.sessionId = sid)

\* Map.set(id, row): replaces the entry of that key in place, else appends
voteMapSet(row) ==
    IF \E k \in DOMAIN voteMap : voteMap[k].id = row.id
    THEN [k \in DOMAIN voteMap |-> IF voteMap[k].id = row.id THEN row ELSE voteMap[k]]
    ELSE Append(voteMap, row)

\* castVote that inserts a new row whatever the lookup returned
castVoteRowAlwaysNew(vote, existingVote) ==
    [id |-> voteIdCounter, sessionId |-> vote.sessionId,
     participantId |-> vote.participantId, value |-> vote.value]

\* the row castVote stores after its lookup returned `existingVote`: the existing
\* row with the new value, or a new row with the next identifier
castVoteRow(vote, existingVote) ==
    IF existingVote # Undefined
    THEN [existingVote EXCEPT !.value = vote.value]
    ELSE [id |-> voteIdCounter, sessionId |-> vote.sessionId,
          participantId |-> vote.participantId, value |-> vote.value]

\* a reset that forgets the session test and deletes every vote
resetVotesEverySession(sid) == <<>>
\* the map after resetVotes: every vote of the session deleted
resetVotes(sid) == SelectSeq(voteMap, LAMBDA v : v.sessionId # sid)

addStoryRow(sid, title, link) ==
    [id |-> storyIdCounter, sessionId |-> sid, title |-> title, link |-> link,
     isCompleted |-> FALSE]

getStory(id) == IF id \in DOMAIN storyMap THEN storyMap[id] ELSE Undefined

getSessionStories(sid) == SelectSeq(storyMap, LAMBDA st : st.sessionId = sid)

\* the map after updateStory(id, data); unchanged for an unknown id
updateStory(id, data) ==
    IF id \in DOMAIN storyMap
    THEN [storyMap EXCEPT ![id] =
            [f \in DOMAIN storyMap[id] |->
                IF f \in DOMAIN data THEN data[f] ELSE storyMap[id][f]]]
    ELSE storyMap

(* ------------------------- story descriptors --------------------------- *)
\* a descriptor that leaves out the link
DescriptorTitleOnly(title, link) == title

\* `${title} (${link})`
Descriptor(title, link) == title \o <<" ", "(">> \o link \o <<")">>

IsSpace(ch) == ch = " "
\* position of the first "(" of str, 0 when there is none
FirstParen(str) ==
    IF \E k \in DOMAIN str : str[k] = "("
    THEN CHOOSE k \in DOMAIN str : str[k] = "(" /\ \A m \in 1..(k - 1) : str[m] # "("
    ELSE 0
\* str.match(/(.*?)\s*\((.*?)\)/) finds a match: a "(" with a ")" somewhere after it
StoryMatches(str) ==
    LET j == FirstParen(str)
    IN j # 0 /\ \E k \in (j + 1)..Len(str) : str[k] = ")"
\* group 1 of that match: the match starts at the first character, the lazy group
\* is the shortest prefix followed by white space and the first "(": the text
\* before the first "(" without the white space that ends it
MatchTitle(str) ==
    LET j == FirstParen(str)
        k == CHOOSE k \in 1..j :
                 /\ \A m \in k..(j - 1) : IsSpace(str[m])
                 /\ \A k2 \in 1..(k - 1) : \E m \in k2..(j - 1) : ~IsSpace(str[m])
    IN SubSeq(str, 1, k - 1)

\* group 2 of the match: the text between the first "(" and the first ")" after it
MatchLink(str) ==
    LET j == FirstParen(str)
        e == CHOOSE k \in (j + 1)..Len(str) :
                 str[k] = ")" /\ \A m \in (j + 1)..(k - 1) : str[m] # ")"
    IN SubSeq(str, j + 1, e - 1)
\* String.prototype.trim
Trim(str) ==
    IF \A k \in DOMAIN str : IsSpace(str[k]) THEN Empty
    ELSE LET a == CHOOSE k \in DOMAIN str :
                     ~IsSpace(str[k]) /\ \A m \in 1..(k - 1) : IsSpace(str[m])
             b == CHOOSE k \in DOMAIN str :
                     ~IsSpace(str[k]) /\ \A m \in (k + 1)..Len(str) : IsSpace(str[m])
         IN SubSeq(str, a, b)

(* ------------------------------ sending -------------------------------- *)
\* sendMessage: sent only when the socket is open
sendMessage(c, msg) ==
    [kind |-> "send", sid |-> NoId, exclude |-> 0, msg |-> msg,
     to |-> IF sock[c] = "open" THEN <<c>> ELSE <<>>]

sendError(c, text) == sendMessage(c, [type |-> "error", message |-> text])

\* broadcastToSession without the session test
broadcastToAll(sid, msg, exclude, reg) ==
    [kind |-> "broadcast", sid |-> sid, exclude |-> exclude, msg |-> msg,
     to |-> SelectSeq(clients, LAMBDA c : c # exclude /\ sock[c] = "open")]

\* broadcastToSession without the try/catch around socket.send: the first send
\* that throws ends the forEach
broadcastToSessionAborting(sid, msg, exclude, reg) ==
    LET targets == SelectSeq(clients, LAMBDA c :
                      /\ reg[c].sessionId = sid /\ c # exclude
                      /\ sock[c] \in {"open", "failing"})
        thrown == {k \in DOMAIN targets : sock[targets[k]] = "failing"}
        stop == IF thrown = {} THEN Len(targets) + 1
                ELSE CHOOSE k \in thrown : \A m \in thrown : k <= m
    IN [kind |-> "broadcast", sid |-> sid, exclude |-> exclude, msg |-> msg,
        to |-> SubSeq(targets, 1, stop - 1)]

\* broadcastToSession over the registry `reg` (socket -> client object) as it is
\* when the call is made: every registered socket whose entry has this session
\* identifier, other than `exclude`, and that is open. A socket that is not
\* open is passed over by the readyState test; a socket whose send throws
\* ("failing") is passed over by the try/catch around socket.send.
broadcastToSession(sid, msg, exclude, reg) ==
    [kind |-> "broadcast", sid |-> sid, exclude |-> exclude, msg |-> msg,
     to |-> SelectSeq(clients, LAMBDA c :
                reg[c].sessionId = sid /\ c # exclude /\ sock[c] = "open")]

(* ------------------------------ dispatch ------------------------------- *)
\* the values of enum MessageType
MessageType ==
    {"join_session", "leave_session", "participant_joined", "participant_left",
     "cast_vote", "vote_updated", "reveal_votes", "votes_revealed", "reset_voting",
     "voting_reset", "set_story", "story_updated", "add_story", "story_added",
     "get_stories", "stories_updated", "set_current_story", "session_update", "error"}
\* messageSchema.parse: z.nativeEnum(MessageType) accepts the values of the enum
\* and nothing else; on any other type it throws a ZodError
messageSchemaAccepts(type) == type \in MessageType

(* ------------------------------- tasks --------------------------------- *)
\* a new handler takes the lowest free slot
FreeSlot(i) == tasks[i] = Idle /\ \A j \in TaskIds : j < i => tasks[j] # Idle
Goto(i, t) == tasks' = [tasks EXCEPT ![i] = t]
Finish(i) == tasks' = [tasks EXCEPT ![i] = Idle]
At(i, pc) == tasks[i].pc = pc
\* a message event is handled for a registered, open socket
Receives(c) == sock[c] = "open" /\ Registered(c)
\* participant rows that handlers in progress may still insert: a create that
\* found no session, a join that has not found a row of its name
PendingAdds == Cardinality({i \in TaskIds :
                  \/ tasks[i].pc = "jc_check" /\ tasks[i].existingSession = Undefined
                  \/ tasks[i].pc = "jc_add"
                  \/ tasks[i].pc = "je_lookup" /\ tasks[i].session # Undefined
                  \/ tasks[i].pc = "je_decide"
                     /\ tasks[i].existingParticipant = Undefined})
RoomForParticipant == Len(participantMap) + PendingAdds < MaxParticipants

(* ---------------------------- connection ------------------------------- *)
\* wss.on("connection"): clients.set(socket, {socket})
\* The welcome session_update that a timer sends to the new socket alone
\* 500 ms later (routes.ts 122-140) is left out: it writes no state and is
\* not a broadcast.
Connect(c) ==
    /\ sock[c] = "new"
    /\ sock' = [sock EXCEPT ![c] = "open"]
    /\ clients' = Append(clients, c)
    /\ clientObj' = [clientObj EXCEPT ![c] = FreshClient]
    /\ out' = <<>>
    /\ UNCHANGED <<store, tasks>>

(* --------------------------- handleJoinSession ------------------------- *)
\* join payloads over the session identifiers sids and the names: create-shaped
\* (admin intent, session name, a voting system that is valid or not) and
\* join-shaped (no session name, no voting system)
JoinPayloads(sids, names) ==
    [sessionId : sids \cup {NoId}, name : names \cup {""},
     isAdmin : {TRUE}, sessionName : {"Sprint"}, votingSystem : {"fibonacci", "bogus"}]
    \cup
    [sessionId : sids \cup {NoId}, name : names \cup {""},
     isAdmin : BOOLEAN, sessionName : {""}, votingSystem : {""}]
\* the well-formed join payloads among them: a create and a join per session
\* identifier and name
JoinPayloadsValid(sids, names) ==
    {p \in JoinPayloads(sids, names) :
        /\ p.sessionId # NoId /\ p.name # ""
        /\ p.votingSystem \in VotingSystems \cup {""}
        /\ p.isAdmin = (p.sessionName # "")}
\* what nanoid may return; it is called only when the payload has no sessionId
NanoIds(p, sids) == IF p.sessionId = NoId /\ p.sessionName # "" THEN sids ELSE {NoId}

\* the join may insert a participant row: a create of a session that does not
\* exist, a join of a session that has no row of the name (rows and sessions
\* are never deleted)
MayAdd(p, nano) ==
    /\ p.name # ""
    /\ IF p.isAdmin /\ p.sessionName # "" /\ p.votingSystem # ""
       THEN /\ p.votingSystem \in VotingSystems
            /\ getSession(IF p.sessionId # NoId THEN p.sessionId ELSE nano) = Undefined
       ELSE /\ getSession(p.sessionId) # Undefined
            /\ getParticipantByName(p.sessionId, p.name) = Undefined

\* the binding that sets client.participant and leaves client.sessionId unset
BindParticipantOnly(participant, sid) ==
    [participant |-> participant, sessionId |-> NoId]
\* client.participant = participant; client.sessionId = sid, with no await in
\* between
Bind(participant, sid) == [participant |-> participant, sessionId |-> sid]

\* the synchronous start of handleJoinSession, up to its first await
JoinSession(c, i, p, nano) ==
    /\ Receives(c) /\ FreeSlot(i)
    /\ MayAdd(p, nano) => RoomForParticipant
    /\ UNCHANGED <<store, registry>>
    /\ IF p.name = ""
       THEN /\ out' = <<sendError(c, "Participant name is required")>>
            /\ UNCHANGED tasks
       ELSE IF p.isAdmin /\ p.sessionName # "" /\ p.votingSystem # ""
       THEN IF p.votingSystem \notin VotingSystems
            THEN /\ out' = <<sendError(c, "Invalid session data")>>
                 /\ UNCHANGED tasks
            ELSE LET newSessionId == IF p.sessionId # NoId THEN p.sessionId ELSE nano
                 IN /\ Goto(i, [pc |-> "jc_check", conn |-> c, sid |-> newSessionId,
                                name |-> p.name, votingSystem |-> p.votingSystem,
                                existingSession |-> getSession(newSessionId)])
                    /\ out' = <<>>
       ELSE IF p.sessionId = NoId
            THEN /\ out' = <<sendError(c, "Session ID is required")>>
                 /\ UNCHANGED tasks
            ELSE /\ Goto(i, [pc |-> "je_lookup", conn |-> c, sid |-> p.sessionId,
                             name |-> p.name, session |-> getSession(p.sessionId)])
                 /\ out' = <<>>

\* create: after getSession; "Session already exists" or createSession
JoinCreateCheck(i) ==
    /\ At(i, "jc_check")
    /\ LET t == tasks[i] IN
       IF t.existingSession # Undefined
       THEN /\ out' = <<sendError(t.conn, "Session already exists")>>
            /\ Finish(i)
            /\ UNCHANGED <<store, registry>>
       ELSE /\ sessionMap' = createSession(t.sid, t.votingSystem)
            /\ Goto(i, [pc |-> "jc_add", conn |-> t.conn, sid |-> t.sid, name |-> t.name])
            /\ out' = <<>>
            /\ UNCHANGED <<participantMap, voteMap, voteIdCounter, storyMap, registry>>

\* create: after createSession; addParticipant(isAdmin: true)
JoinCreateAdd(i) ==
    /\ At(i, "jc_add")
    /\ LET t == tasks[i] IN
       /\ participantMap' = addParticipant(t.sid, t.name, TRUE)
       /\ Goto(i, [pc |-> "jc_bind", conn |-> t.conn, sid |-> t.sid,
                   participant |-> addParticipantRow(t.sid, t.name, TRUE)])
    /\ out' = <<>>
    /\ UNCHANGED <<sessionMap, voteMap, voteIdCounter, storyMap, registry>>

\* create: after addParticipant; bind the connection, then getSession for the reply
JoinCreateBind(i) ==
    /\ At(i, "jc_bind")
    /\ LET t == tasks[i] IN
       /\ clientObj' = [clientObj EXCEPT ![t.conn] = Bind(t.participant, t.sid)]
       /\ Goto(i, [pc |-> "jc_list", conn |-> t.conn, sid |-> t.sid,
                   participant |-> t.participant, session |-> getSession(t.sid)])
    /\ out' = <<>>
    /\ UNCHANGED <<store, sock, clients>>

\* create: after getSession; getSessionParticipants for the reply
JoinCreateList(i) ==
    /\ At(i, "jc_list")
    /\ LET t == tasks[i] IN
       Goto(i, [pc |-> "jc_reply", conn |-> t.conn, sid |-> t.sid,
                participant |-> t.participant, session |-> t.session,
                participants |-> getSessionParticipants(t.sid)])
    /\ out' = <<>>
    /\ UNCHANGED <<store, registry>>

\* create: the session_update reply
JoinCreateReply(i) ==
    /\ At(i, "jc_reply")
    /\ LET t == tasks[i] IN
       out' = <<sendMessage(t.conn,
                  [type |-> "session_update", sessionId |-> t.sid,
                   participant |-> t.participant, session |-> t.session,
                   participants |-> t.participants, votes |-> <<>>])>>
    /\ Finish(i)
    /\ UNCHANGED <<store, registry>>

\* existing: after getSession; "Session not found" or getParticipantByName
JoinLookup(i) ==
    /\ At(i, "je_lookup")
    /\ LET t == tasks[i] IN
       IF t.session = Undefined
       THEN /\ out' = <<sendError(t.conn, "Session not found")>>
            /\ Finish(i)
       ELSE /\ Goto(i, [pc |-> "je_decide", conn |-> t.conn, sid |-> t.sid,
                        name |-> t.name, session |-> t.session,
                        existingParticipant |-> getParticipantByName(t.sid, t.name)])
            /\ out' = <<>>
    /\ UNCHANGED <<store, registry>>

\* the name conflict check: a participant of that name exists and is connected
NameTaken(e) == e # Undefined /\ e.connected

\* existing: after getParticipantByName; reject a connected name, reactivate a
\* disconnected one (updateParticipant), or addParticipant(isAdmin: false)
JoinDecide(i) ==
    /\ At(i, "je_decide")
    /\ LET t == tasks[i]
           e == t.existingParticipant
       IN
       IF NameTaken(e)
       THEN /\ out' = <<sendError(t.conn,
                   "A participant with this name already exists in the session")>>
            /\ Finish(i)
            /\ UNCHANGED <<store, registry>>
       ELSE /\ participantMap' = IF e # Undefined
                                 THEN updateParticipant(e.id, TRUE)
                                 ELSE addParticipant(t.sid, t.name, FALSE)
            /\ Goto(i, [pc |-> "je_bind", conn |-> t.conn, sid |-> t.sid,
                        session |-> t.session,
                        participant |-> IF e # Undefined
                                        THEN [e EXCEPT !.connected = TRUE]
                                        ELSE addParticipantRow(t.sid, t.name, FALSE)])
            /\ out' = <<>>
            /\ UNCHANGED <<sessionMap, voteMap, voteIdCounter, storyMap, registry>>

\* the participant_joined broadcast that does not exclude the joiner's socket
JoinedBroadcastEcho(t, reg) ==
    broadcastToSession(t.sid, [type |-> "participant_joined",
                               participant |-> t.participant], 0, reg)

\* the participant_joined broadcast of a join, over the registry reg
JoinedBroadcast(t, reg) ==
    broadcastToSession(t.sid, [type |-> "participant_joined",
                               participant |-> t.participant], t.conn, reg)

\* existing: after updateParticipant / addParticipant; bind the connection; then
\* either await getSessionVotes (revealed session), or broadcast
\* participant_joined and await getSessionParticipants
JoinBind(i) ==
    /\ At(i, "je_bind")
    /\ LET t == tasks[i] IN
       /\ clientObj' = [clientObj EXCEPT ![t.conn] = Bind(t.participant, t.sid)]
       /\ IF t.session.revealed
          THEN /\ Goto(i, [pc |-> "je_votes", conn |-> t.conn, sid |-> t.sid,
                           session |-> t.session, participant |-> t.participant,
                           votes |-> SelectSeq(voteMap, LAMBDA v : v.sessionId = t.sid)])
               /\ out' = <<>>
          ELSE /\ Goto(i, [pc |-> "je_reply", conn |-> t.conn, sid |-> t.sid,
                           session |-> t.session, participant |-> t.participant,
                           votes |-> <<>>,
                           participants |-> getSessionParticipants(t.sid)])
               /\ out' = <<JoinedBroadcast(t, clientObj')>>
    /\ UNCHANGED <<store, sock, clients>>

\* existing: after getSessionVotes; broadcast participant_joined and await
\* getSessionParticipants
JoinVotes(i) ==
    /\ At(i, "je_votes")
    /\ LET t == tasks[i] IN
       /\ Goto(i, [pc |-> "je_reply", conn |-> t.conn, sid |-> t.sid,
                   session |-> t.session, participant |-> clientObj[t.conn].participant,
                   votes |-> t.votes,
                   participants |-> getSessionParticipants(t.sid)])
       /\ out' = <<broadcastToSession(t.sid, [type |-> "participant_joined",
                       participant |-> clientObj[t.conn].participant], t.conn, clientObj)>>
    /\ UNCHANGED <<store, registry>>

\* existing: the session_update reply
JoinReply(i) ==
    /\ At(i, "je_reply")
    /\ LET t == tasks[i] IN
       out' = <<sendMessage(t.conn,
                  [type |-> "session_update", sessionId |-> t.sid,
                   participant |-> t.participant, session |-> t.session,
                   participants |-> t.participants, votes |-> t.votes])>>
    /\ Finish(i)
    /\ UNCHANGED <<store, registry>>

(* --------------------------- handleLeaveSession ------------------------ *)
\* the participant_left broadcast that does not leave out the sender
LeftBroadcastToAll(c) ==
    broadcastToSession(clientObj[c].sessionId,
        [type |-> "participant_left", participantId |-> clientObj[c].participant.id],
        0, clientObj)

\* the participant_left broadcast of the entry of socket c as it is now
LeftBroadcast(c) ==
    broadcastToSession(clientObj[c].sessionId,
        [type |-> "participant_left", participantId |-> clientObj[c].participant.id],
        c, clientObj)

\* start: "Not in a session", or updateParticipant(connected: false)
LeaveSession(c, i) ==
    /\ Receives(c) /\ FreeSlot(i)
    /\ IF ~Bound(c)
       THEN /\ out' = <<sendError(c, "Not in a session")>>
            /\ UNCHANGED <<store, tasks>>
       ELSE /\ participantMap' = updateParticipant(clientObj[c].participant.id, FALSE)
            /\ Goto(i, [pc |-> "lv_notify", conn |-> c])
            /\ out' = <<>>
            /\ UNCHANGED <<sessionMap, voteMap, voteIdCounter, storyMap>>
    /\ UNCHANGED registry

\* after updateParticipant: broadcast participant_left, clear the entry, reply.
\* Reading client.participant.id throws when the entry was cleared meanwhile;
\* the catch block answers "Failed to leave session".
LeaveNotify(i) ==
    /\ At(i, "lv_notify")
    /\ LET c == tasks[i].conn IN
       IF clientObj[c].participant = Undefined
       THEN /\ out' = <<sendError(c, "Failed to leave session")>>
            /\ UNCHANGED clientObj
       ELSE /\ out' = <<LeftBroadcast(c),
                        sendMessage(c, [type |-> "leave_session", success |-> TRUE])>>
            /\ clientObj' = [clientObj EXCEPT ![c] = FreshClient]
    /\ Finish(i)
    /\ UNCHANGED <<store, sock, clients>>

(* --------------------------- socket.on("close") ------------------------ *)
\* clients.delete that removes nothing
RemoveClientNone(c) == clients

\* the registry after clients.delete(socket)
RemoveClient(c) == SelectSeq(clients, LAMBDA x : x # c)

\* the close event: a Bound entry awaits updateParticipant(connected: false);
\* an Unbound one is deleted from the registry at once
Close(c, i) ==
    /\ sock[c] = "open" /\ FreeSlot(i)
    /\ sock' = [sock EXCEPT ![c] = "closed"]
    /\ out' = <<>>
    /\ IF Registered(c) /\ Bound(c)
       THEN /\ participantMap' = updateParticipant(clientObj[c].participant.id, FALSE)
            /\ Goto(i, [pc |-> "cl_notify", conn |-> c])
            /\ UNCHANGED clients
       ELSE /\ clients' = RemoveClient(c)
            /\ UNCHANGED <<participantMap, tasks>>
    /\ UNCHANGED <<sessionMap, voteMap, voteIdCounter, storyMap, clientObj>>

\* after updateParticipant: broadcast participant_left, then clients.delete.
\* Reading client.participant.id throws when the entry was cleared meanwhile:
\* the rejection is not caught and clients.delete is not reached.
CloseNotify(i) ==
    /\ At(i, "cl_notify")
    /\ LET c == tasks[i].conn IN
       IF clientObj[c].participant = Undefined
       THEN /\ out' = <<>>
            /\ UNCHANGED clients
       ELSE /\ out' = <<LeftBroadcast(c)>>
            /\ clients' = RemoveClient(c)
    /\ Finish(i)
    /\ UNCHANGED <<store, sock, clientObj>>

(* ----------------------------- handleCastVote -------------------------- *)
\* vote identifiers that handlers in progress may still take
PendingVotes == Cardinality({i \in TaskIds : tasks[i].pc = "cv_store"})
RoomForVote == (voteIdCounter - 1) + PendingVotes < MaxVotes

\* start: "Not in a session", "Vote value is required", or storage.castVote up
\* to its own await of getVote
CastVote(c, i, value) ==
    /\ Receives(c) /\ FreeSlot(i) /\ RoomForVote
    /\ IF ~Bound(c)
       THEN /\ out' = <<sendError(c, "Not in a session")>>
            /\ UNCHANGED tasks
       ELSE IF value = ""
       THEN /\ out' = <<sendError(c, "Vote value is required")>>
            /\ UNCHANGED tasks
       ELSE LET vote == [sessionId |-> clientObj[c].sessionId,
                         participantId |-> clientObj[c].participant.id,
                         value |-> value]
            IN /\ Goto(i, [pc |-> "cv_store", conn |-> c, vote |-> vote,
                           existingVote |-> getVote(vote.participantId, vote.sessionId)])
               /\ out' = <<>>
    /\ UNCHANGED <<store, registry>>

\* castVote after getVote: update the existing row or insert a new one
CastVoteStore(i) ==
    /\ At(i, "cv_store")
    /\ LET t == tasks[i]
           row == castVoteRow(t.vote, t.existingVote)
       IN /\ voteMap' = voteMapSet(row)
          /\ voteIdCounter' = IF t.existingVote # Undefined
                              THEN voteIdCounter ELSE voteIdCounter + 1
          /\ Goto(i, [pc |-> "cv_notify", conn |-> t.conn, vote |-> row])
    /\ out' = <<>>
    /\ UNCHANGED <<sessionMap, participantMap, storyMap, registry>>

\* the all-votes-in payload sent in place of vote_updated
VoteUpdatedAsSignal(vote, participantId) ==
    [type |-> "session_update", allVotesIn |-> TRUE]
\* the vote_updated message
VoteUpdated(vote, participantId) ==
    [type |-> "vote_updated", vote |-> vote, participantId |-> participantId,
     hasVoted |-> TRUE]

\* after castVote: broadcast vote_updated, then getSessionParticipants.
\* client.participant.id throws when the entry was cleared meanwhile; the
\* catch block answers "Failed to cast vote".
CastVoteNotify(i) ==
    /\ At(i, "cv_notify")
    /\ LET t == tasks[i]
           c == t.conn
       IN IF clientObj[c].participant = Undefined
          THEN /\ out' = <<sendError(c, "Failed to cast vote")>>
               /\ Finish(i)
          ELSE /\ out' = <<broadcastToSession(clientObj[c].sessionId,
                              VoteUpdated(t.vote, clientObj[c].participant.id),
                              0, clientObj)>>
               /\ Goto(i, [pc |-> "cv_count", conn |-> c,
                           participants |->
                               getSessionParticipants(clientObj[c].sessionId)])
    /\ UNCHANGED <<store, registry>>

\* after getSessionParticipants: keep the connected ones, then getSessionVotes
CastVoteCount(i) ==
    /\ At(i, "cv_count")
    /\ LET t == tasks[i] IN
       Goto(i, [pc |-> "cv_signal", conn |-> t.conn,
                activeParticipants |-> SelectSeq(t.participants, LAMBDA p : p.connected),
                votes |-> getSessionVotes(clientObj[t.conn].sessionId)])
    /\ out' = <<>>
    /\ UNCHANGED <<store, registry>>

\* the test that never fails
AllVotesInAlways(votes, activeParticipants) == TRUE

\* votes.length === activeParticipants.length
AllVotesIn(votes, activeParticipants) == Len(votes) = Len(activeParticipants)

\* after getSessionVotes: the all-votes-in signal
CastVoteSignal(i) ==
    /\ At(i, "cv_signal")
    /\ LET t == tasks[i] IN
       out' = IF AllVotesIn(t.votes, t.activeParticipants)
              THEN <<broadcastToSession(clientObj[t.conn].sessionId,
                        [type |-> "session_update", allVotesIn |-> TRUE], 0, clientObj)>>
              ELSE <<>>
    /\ Finish(i)
    /\ UNCHANGED <<store, registry>>

(* ---------------------------- handleRevealVotes ------------------------ *)
\* start: "Not in a session", or updateSession(revealed: true)
RevealVotes(c, i) ==
    /\ Receives(c) /\ FreeSlot(i)
    /\ IF ~Bound(c)
       THEN /\ out' = <<sendError(c, "Not in a session")>>
            /\ UNCHANGED <<sessionMap, tasks>>
       ELSE LET sid == clientObj[c].sessionId
                data == [revealed |-> TRUE]
            IN /\ sessionMap' = updateSession(sid, data)
               /\ Goto(i, [pc |-> "rv_votes", conn |-> c,
                           session |-> updateSessionResult(sid, data)])
               /\ out' = <<>>
    /\ UNCHANGED <<participantMap, voteMap, voteIdCounter, storyMap, registry>>

\* after updateSession: "Session not found", or getSessionVotes
RevealFetch(i) ==
    /\ At(i, "rv_votes")
    /\ LET t == tasks[i] IN
       IF t.session = Undefined
       THEN /\ out' = <<sendError(t.conn, "Session not found")>>
            /\ Finish(i)
       ELSE /\ Goto(i, [pc |-> "rv_notify", conn |-> t.conn, session |-> t.session,
                        votes |-> getSessionVotes(clientObj[t.conn].sessionId)])
            /\ out' = <<>>
    /\ UNCHANGED <<store, registry>>

\* after getSessionVotes: broadcast votes_revealed to the session
RevealNotify(i) ==
    /\ At(i, "rv_notify")
    /\ LET t == tasks[i] IN
       out' = <<broadcastToSession(clientObj[t.conn].sessionId,
                   [type |-> "votes_revealed", votes |-> t.votes,
                    session |-> t.session], 0, clientObj)>>
    /\ Finish(i)
    /\ UNCHANGED <<store, registry>>

(* ---------------------------- handleResetVoting ------------------------ *)
\* the reset write without the revealed field
ResetDataKeepsRevealed == [currentStory |-> Null]
ResetData == [revealed |-> FALSE, currentStory |-> Null]

\* start: "Not in a session", or getSession
ResetVoting(c, i) ==
    /\ Receives(c) /\ FreeSlot(i)
    /\ IF ~Bound(c)
       THEN /\ out' = <<sendError(c, "Not in a session")>>
            /\ UNCHANGED tasks
       ELSE /\ Goto(i, [pc |-> "rs_check", conn |-> c,
                        session |-> getSession(clientObj[c].sessionId)])
            /\ out' = <<>>
    /\ UNCHANGED <<store, registry>>

\* after getSession: "Session not found"; with a current story that matches
\* the pattern, getSessionStories; otherwise resetVotes
ResetCheck(i) ==
    /\ At(i, "rs_check")
    /\ LET t == tasks[i]
           sid == clientObj[t.conn].sessionId
       IN IF t.session = Undefined
          THEN /\ out' = <<sendError(t.conn, "Session not found")>>
               /\ Finish(i)
               /\ UNCHANGED voteMap
          ELSE /\ out' = <<>>
               /\ IF Truthy(t.session.currentStory) /\ StoryMatches(t.session.currentStory)
                  THEN /\ Goto(i, [pc |-> "rs_find", conn |-> t.conn,
                                   storyTitle |-> MatchTitle(t.session.currentStory),
                                   stories |-> getSessionStories(sid)])
                       /\ UNCHANGED voteMap
                  ELSE /\ voteMap' = resetVotes(sid)
                       /\ Goto(i, [pc |-> "rs_update", conn |-> t.conn])
    /\ UNCHANGED <<sessionMap, participantMap, voteIdCounter, storyMap, registry>>

\* stories.find(s => s.title === storyTitle && !s.isCompleted)
FindCurrentStory(stories, storyTitle) ==
    LET hits == {k \in DOMAIN stories :
                    stories[k].title = storyTitle /\ ~stories[k].isCompleted}
    IN IF hits = {} THEN Undefined
       ELSE stories[CHOOSE k \in hits : \A m \in hits : k <= m]

\* after getSessionStories: updateStory(isCompleted: true) for the story found,
\* otherwise resetVotes
ResetFind(i) ==
    /\ At(i, "rs_find")
    /\ LET t == tasks[i]
           currentStory == FindCurrentStory(t.stories, t.storyTitle)
       IN IF currentStory # Undefined
          THEN /\ storyMap' = updateStory(currentStory.id, [isCompleted |-> TRUE])
               /\ Goto(i, [pc |-> "rs_marked", conn |-> t.conn])
               /\ UNCHANGED voteMap
          ELSE /\ voteMap' = resetVotes(clientObj[t.conn].sessionId)
               /\ Goto(i, [pc |-> "rs_update", conn |-> t.conn])
               /\ UNCHANGED storyMap
    /\ out' = <<>>
    /\ UNCHANGED <<sessionMap, participantMap, voteIdCounter, registry>>

\* after updateStory: resetVotes
ResetMarked(i) ==
    /\ At(i, "rs_marked")
    /\ voteMap' = resetVotes(clientObj[tasks[i].conn].sessionId)
    /\ Goto(i, [pc |-> "rs_update", conn |-> tasks[i].conn])
    /\ out' = <<>>
    /\ UNCHANGED <<sessionMap, participantMap, voteIdCounter, storyMap, registry>>

\* after resetVotes: updateSession(revealed: false, currentStory: null)
ResetUpdate(i) ==
    /\ At(i, "rs_update")
    /\ LET t == tasks[i]
           sid == clientObj[t.conn].sessionId
       IN /\ sessionMap' = updateSession(sid, ResetData)
          /\ Goto(i, [pc |-> "rs_stories", conn |-> t.conn,
                      updatedSession |-> updateSessionResult(sid, ResetData)])
    /\ out' = <<>>
    /\ UNCHANGED <<participantMap, voteMap, voteIdCounter, storyMap, registry>>

\* after updateSession: "Failed to update session", or getSessionStories
ResetStories(i) ==
    /\ At(i, "rs_stories")
    /\ LET t == tasks[i] IN
       IF t.updatedSession = Undefined
       THEN /\ out' = <<sendError(t.conn, "Failed to update session")>>
            /\ Finish(i)
       ELSE /\ Goto(i, [pc |-> "rs_notify", conn |-> t.conn,
                        updatedSession |-> t.updatedSession,
                        updatedStories |->
                            getSessionStories(clientObj[t.conn].sessionId)])
            /\ out' = <<>>
    /\ UNCHANGED <<store, registry>>

\* after getSessionStories: broadcast voting_reset
ResetNotify(i) ==
    /\ At(i, "rs_notify")
    /\ LET t == tasks[i] IN
       out' = <<broadcastToSession(clientObj[t.conn].sessionId,
                   [type |-> "voting_reset", session |-> t.updatedSession,
                    stories |-> t.updatedStories], 0, clientObj)>>
    /\ Finish(i)
    /\ UNCHANGED <<store, registry>>

(* ----------------------------- handleAddStory -------------------------- *)
RoomForStory == Len(storyMap) < MaxStories

\* the admin test that lets everyone pass
IsAdminAnyone(c) == TRUE

\* client.participant.isAdmin of a Bound entry
IsAdmin(c) == clientObj[c].participant.isAdmin

\* start: "Not in a session", admin check, required fields, or addStory
AddStory(c, i, title, link) ==
    /\ Receives(c) /\ FreeSlot(i)
    /\ (Bound(c) /\ IsAdmin(c) /\ title # Empty /\ link # Empty) => RoomForStory
    /\ IF ~Bound(c)
       THEN /\ out' = <<sendError(c, "Not in a session")>>
            /\ UNCHANGED <<storyMap, tasks>>
       ELSE IF ~IsAdmin(c)
       THEN /\ out' = <<sendError(c, "Only administrators can add stories")>>
            /\ UNCHANGED <<storyMap, tasks>>
       ELSE IF title = Empty \/ link = Empty
       THEN /\ out' = <<sendError(c, "Title and link are required")>>
            /\ UNCHANGED <<storyMap, tasks>>
       ELSE LET story == addStoryRow(clientObj[c].sessionId, title, link)
            IN /\ storyMap' = Append(storyMap, story)
               /\ Goto(i, [pc |-> "as_notify", conn |-> c, story |-> story])
               /\ out' = <<>>
    /\ UNCHANGED <<sessionMap, participantMap, voteMap, voteIdCounter, registry>>

\* after addStory: broadcast story_added
AddStoryNotify(i) ==
    /\ At(i, "as_notify")
    /\ LET t == tasks[i] IN
       out' = <<broadcastToSession(clientObj[t.conn].sessionId,
                   [type |-> "story_added", story |-> t.story], 0, clientObj)>>
    /\ Finish(i)
    /\ UNCHANGED <<store, registry>>

(* ----------------------------- handleGetStories ------------------------ *)
\* start: "Not in a session", or getSessionStories
GetStories(c, i) ==
    /\ Receives(c) /\ FreeSlot(i)
    /\ IF ~Bound(c)
       THEN /\ out' = <<sendError(c, "Not in a session")>>
            /\ UNCHANGED tasks
       ELSE /\ Goto(i, [pc |-> "gs_reply", conn |-> c,
                        stories |-> getSessionStories(clientObj[c].sessionId)])
            /\ out' = <<>>
    /\ UNCHANGED <<store, registry>>

\* after getSessionStories: the direct stories_updated reply
GetStoriesReply(i) ==
    /\ At(i, "gs_reply")
    /\ LET t == tasks[i] IN
       out' = <<sendMessage(t.conn, [type |-> "stories_updated", stories |-> t.stories])>>
    /\ Finish(i)
    /\ UNCHANGED <<store, registry>>

(* -------------------------- handleSetCurrentStory ---------------------- *)
\* start: "Not in a session", admin check, or getStory
SetCurrentStory(c, i, storyId) ==
    /\ Receives(c) /\ FreeSlot(i)
    /\ IF ~Bound(c)
       THEN /\ out' = <<sendError(c, "Not in a session")>>
            /\ UNCHANGED tasks
       ELSE IF ~IsAdmin(c)
       THEN /\ out' = <<sendError(c, "Only administrators can set the current story")>>
            /\ UNCHANGED tasks
       ELSE /\ Goto(i, [pc |-> "sc_update", conn |-> c, story |-> getStory(storyId)])
            /\ out' = <<>>
    /\ UNCHANGED <<store, registry>>

\* after getStory: "Story not found", or updateSession(currentStory, revealed: false)
SetCurrentUpdate(i) ==
    /\ At(i, "sc_update")
    /\ LET t == tasks[i]
           sid == clientObj[t.conn].sessionId
       IN IF t.story = Undefined \/ t.story.sessionId # sid
          THEN /\ out' = <<sendError(t.conn, "Story not found")>>
               /\ Finish(i)
               /\ UNCHANGED sessionMap
          ELSE LET data == [currentStory |-> Descriptor(t.story.title, t.story.link),
                            revealed |-> FALSE]
               IN /\ sessionMap' = updateSession(sid, data)
                  /\ Goto(i, [pc |-> "sc_reset", conn |-> t.conn, story |-> t.story,
                              session |-> updateSessionResult(sid, data)])
                  /\ out' = <<>>
    /\ UNCHANGED <<participantMap, voteMap, voteIdCounter, storyMap, registry>>

\* after updateSession: "Session not found", or resetVotes
SetCurrentReset(i) ==
    /\ At(i, "sc_reset")
    /\ LET t == tasks[i] IN
       IF t.session = Undefined
       THEN /\ out' = <<sendError(t.conn, "Session not found")>>
            /\ Finish(i)
            /\ UNCHANGED voteMap
       ELSE /\ voteMap' = resetVotes(clientObj[t.conn].sessionId)
            /\ Goto(i, [pc |-> "sc_notify", conn |-> t.conn, story |-> t.story,
                        session |-> t.session])
            /\ out' = <<>>
    /\ UNCHANGED <<sessionMap, participantMap, voteIdCounter, storyMap, registry>>

\* after resetVotes: broadcast story_updated with the session and the story
SetCurrentNotify(i) ==
    /\ At(i, "sc_notify")
    /\ LET t == tasks[i] IN
       out' = <<broadcastToSession(clientObj[t.conn].sessionId,
                   [type |-> "story_updated", session |-> t.session,
                    currentStory |-> t.story], 0, clientObj)>>
    /\ Finish(i)
    /\ UNCHANGED <<store, registry>>

(* ----------------------------- handleSetStory -------------------------- *)
\* payloads: free text (regular path), or update + storyId (story update path)
SetStoryRegular == [story : FreeTexts \cup {Empty}, storyId : {0}, update : {FALSE}]
SetStoryUpdate == [story : FreeTexts, storyId : 1..MaxStories, update : {TRUE}]
SetStoryPayloads == SetStoryRegular \cup SetStoryUpdate

\* start: "Not in a session", admin check; update path: getStory; regular
\* path: updateSession(currentStory: story, revealed: false)
SetStory(c, i, p) ==
    /\ Receives(c) /\ FreeSlot(i)
    /\ IF ~Bound(c)
       THEN /\ out' = <<sendError(c, "Not in a session")>>
            /\ UNCHANGED <<sessionMap, tasks>>
       ELSE IF ~IsAdmin(c)
       THEN /\ out' = <<sendError(c, "Only administrators can change the story")>>
            /\ UNCHANGED <<sessionMap, tasks>>
       ELSE IF p.update /\ p.storyId # 0
       THEN /\ Goto(i, [pc |-> "su_check", conn |-> c, story |-> p.story,
                        storyId |-> p.storyId, existingStory |-> getStory(p.storyId)])
            /\ out' = <<>>
            /\ UNCHANGED sessionMap
       ELSE LET sid == clientObj[c].sessionId
                data == [currentStory |-> p.story, revealed |-> FALSE]
            IN /\ sessionMap' = updateSession(sid, data)
               /\ Goto(i, [pc |-> "ss_reset", conn |-> c,
                           session |-> updateSessionResult(sid, data)])
               /\ out' = <<>>
    /\ UNCHANGED <<participantMap, voteMap, voteIdCounter, storyMap, registry>>

\* regular path, after updateSession: "Session not found", or resetVotes
SetStoryReset(i) ==
    /\ At(i, "ss_reset")
    /\ LET t == tasks[i] IN
       IF t.session = Undefined
       THEN /\ out' = <<sendError(t.conn, "Session not found")>>
            /\ Finish(i)
            /\ UNCHANGED voteMap
       ELSE /\ voteMap' = resetVotes(clientObj[t.conn].sessionId)
            /\ Goto(i, [pc |-> "ss_notify", conn |-> t.conn, session |-> t.session])
            /\ out' = <<>>
    /\ UNCHANGED <<sessionMap, participantMap, voteIdCounter, storyMap, registry>>

\* regular path, after resetVotes: broadcast story_updated with the session
SetStoryNotify(i) ==
    /\ At(i, "ss_notify")
    /\ LET t == tasks[i] IN
       out' = <<broadcastToSession(clientObj[t.conn].sessionId,
                   [type |-> "story_updated", session |-> t.session], 0, clientObj)>>
    /\ Finish(i)
    /\ UNCHANGED <<store, registry>>

\* update path, after getStory: "Story not found", "Invalid story format", or
\* updateStory with the trimmed title and link parsed from the story string
SetStoryUpdateCheck(i) ==
    /\ At(i, "su_check")
    /\ LET t == tasks[i]
           e == t.existingStory
       IN IF e = Undefined \/ e.sessionId # clientObj[t.conn].sessionId
          THEN /\ out' = <<sendError(t.conn, "Story not found")>>
               /\ Finish(i)
               /\ UNCHANGED storyMap
          ELSE IF ~StoryMatches(t.story)
          THEN /\ out' = <<sendError(t.conn, "Invalid story format")>>
               /\ Finish(i)
               /\ UNCHANGED storyMap
          ELSE LET data == [title |-> Trim(MatchTitle(t.story)),
                            link |-> Trim(MatchLink(t.story))]
               IN /\ storyMap' = updateStory(t.storyId, data)
                  /\ Goto(i, [pc |-> "su_list", conn |-> t.conn, existingStory |-> e,
                              updatedStory |-> updateStory(t.storyId, data)[t.storyId]])
                  /\ out' = <<>>
    /\ UNCHANGED <<sessionMap, participantMap, voteMap, voteIdCounter, registry>>

\* update path, after updateStory: getSessionStories
SetStoryUpdateList(i) ==
    /\ At(i, "su_list")
    /\ LET t == tasks[i] IN
       Goto(i, [pc |-> "su_session", conn |-> t.conn, existingStory |-> t.existingStory,
                updatedStory |-> t.updatedStory,
                stories |-> getSessionStories(clientObj[t.conn].sessionId)])
    /\ out' = <<>>
    /\ UNCHANGED <<store, registry>>

\* update path, after getSessionStories: getSession
SetStoryUpdateSession(i) ==
    /\ At(i, "su_session")
    /\ LET t == tasks[i] IN
       Goto(i, [pc |-> "su_current", conn |-> t.conn, existingStory |-> t.existingStory,
                updatedStory |-> t.updatedStory, stories |-> t.stories,
                session |-> getSession(clientObj[t.conn].sessionId)])
    /\ out' = <<>>
    /\ UNCHANGED <<store, registry>>

\* the stories_updated broadcast that ends a story update
StoriesUpdatedBroadcast(t) ==
    broadcastToSession(clientObj[t.conn].sessionId,
        [type |-> "stories_updated", stories |-> t.stories,
         title |-> t.updatedStory.title], 0, clientObj)

\* update path, after getSession: when the session's current story has the
\* title the story had, updateSession(currentStory) and await it; otherwise
\* broadcast stories_updated
SetStoryUpdateCurrent(i) ==
    /\ At(i, "su_current")
    /\ LET t == tasks[i]
           s == t.session
       IN IF /\ s # Undefined
             /\ Truthy(s.currentStory)
             /\ StoryMatches(s.currentStory)
             /\ MatchTitle(s.currentStory) = t.existingStory.title
          THEN /\ sessionMap' = updateSession(clientObj[t.conn].sessionId,
                    [currentStory |->
                        Descriptor(t.updatedStory.title, t.updatedStory.link)])
               /\ Goto(i, [pc |-> "su_notify", conn |-> t.conn, stories |-> t.stories,
                           updatedStory |-> t.updatedStory])
               /\ out' = <<>>
          ELSE /\ out' = <<StoriesUpdatedBroadcast(t)>>
               /\ Finish(i)
               /\ UNCHANGED sessionMap
    /\ UNCHANGED <<participantMap, voteMap, voteIdCounter, storyMap, registry>>

\* update path, after updateSession: broadcast stories_updated
SetStoryUpdateNotify(i) ==
    /\ At(i, "su_notify")
    /\ out' = <<StoriesUpdatedBroadcast(tasks[i])>>
    /\ Finish(i)
    /\ UNCHANGED <<store, registry>>

(* ---------------------------- handleUpdateStory ------------------------ *)
UpdateStoryPayloads == [storyId : 1..MaxStories, title : Titles \cup {Empty}, link : Links]

\* an inbound message of type "update_story".  The enum has no such value, so
\* messageSchema.parse throws and the catch block of the message handler
\* answers with a validation error: handleUpdateStory is not reached.  Behind
\* the parse, the start of handleUpdateStory: "Not in a session", admin check,
\* required fields, or getStory.
UpdateStory(c, i, p) ==
    /\ Receives(c) /\ FreeSlot(i)
    /\ IF ~messageSchemaAccepts("update_story")
       THEN /\ out' = <<sendError(c, "Validation error")>>
            /\ UNCHANGED tasks
       ELSE IF ~Bound(c)
       THEN /\ out' = <<sendError(c, "Not in a session")>>
            /\ UNCHANGED tasks
       ELSE IF ~IsAdmin(c)
       THEN /\ out' = <<sendError(c, "Only administrators can update stories")>>
            /\ UNCHANGED tasks
       ELSE IF p.title = Empty \/ p.link = Empty
       THEN /\ out' = <<sendError(c, "Title and link are required")>>
            /\ UNCHANGED tasks
       ELSE /\ Goto(i, [pc |-> "us_check", conn |-> c, storyId |-> p.storyId,
                        title |-> p.title, link |-> p.link,
                        existingStory |-> getStory(p.storyId)])
            /\ out' = <<>>
    /\ UNCHANGED <<store, registry>>

\* after getStory: "Story not found", or updateStory with the trimmed fields
UpdateStoryCheck(i) ==
    /\ At(i, "us_check")
    /\ LET t == tasks[i]
           e == t.existingStory
       IN IF e = Undefined \/ e.sessionId # clientObj[t.conn].sessionId
          THEN /\ out' = <<sendError(t.conn, "Story not found")>>
               /\ Finish(i)
               /\ UNCHANGED storyMap
          ELSE LET data == [title |-> Trim(t.title), link |-> Trim(t.link)]
               IN /\ storyMap' = updateStory(t.storyId, data)
                  /\ Goto(i, [pc |-> "us_list", conn |-> t.conn, existingStory |-> e,
                              updatedStory |-> updateStory(t.storyId, data)[t.storyId]])
                  /\ out' = <<>>
    /\ UNCHANGED <<sessionMap, participantMap, voteMap, voteIdCounter, registry>>

\* after updateStory: getSessionStories
UpdateStoryList(i) ==
    /\ At(i, "us_list")
    /\ LET t == tasks[i] IN
       Goto(i, [pc |-> "us_session", conn |-> t.conn, existingStory |-> t.existingStory,
                updatedStory |-> t.updatedStory,
                stories |-> getSessionStories(clientObj[t.conn].sessionId)])
    /\ out' = <<>>
    /\ UNCHANGED <<store, registry>>

\* after getSessionStories: getSession
UpdateStorySession(i) ==
    /\ At(i, "us_session")
    /\ LET t == tasks[i] IN
       Goto(i, [pc |-> "us_current", conn |-> t.conn, existingStory |-> t.existingStory,
                updatedStory |-> t.updatedStory, stories |-> t.stories,
                session |-> getSession(clientObj[t.conn].sessionId)])
    /\ out' = <<>>
    /\ UNCHANGED <<store, registry>>

\* after getSession: when the session's current story has the title the story
\* had, updateSession(currentStory) and await it; otherwise broadcast
\* stories_updated
UpdateStoryCurrent(i) ==
    /\ At(i, "us_current")
    /\ LET t == tasks[i]
           s == t.session
           sid == clientObj[t.conn].sessionId
           data == [currentStory |->
                       Descriptor(t.updatedStory.title, t.updatedStory.link)]
       IN IF /\ s # Undefined
             /\ Truthy(s.currentStory)
             /\ StoryMatches(s.currentStory)
             /\ MatchTitle(s.currentStory) = t.existingStory.title
          THEN /\ sessionMap' = updateSession(sid, data)
               /\ Goto(i, [pc |-> "us_notify", conn |-> t.conn, stories |-> t.stories,
                           updatedStory |-> t.updatedStory,
                           updatedSession |-> updateSessionResult(sid, data)])
               /\ out' = <<>>
          ELSE /\ out' = <<StoriesUpdatedBroadcast(t)>>
               /\ Finish(i)
               /\ UNCHANGED sessionMap
    /\ UNCHANGED <<participantMap, voteMap, voteIdCounter, storyMap, registry>>

\* after updateSession: broadcast session_update when the session was
\* written, then stories_updated
UpdateStoryNotify(i) ==
    /\ At(i, "us_notify")
    /\ LET t == tasks[i]
           sessionUpdate ==
               broadcastToSession(clientObj[t.conn].sessionId,
                   [type |-> "session_update", session |-> t.updatedSession],
                   0, clientObj)
       IN out' = IF t.updatedSession # Undefined
                 THEN <<sessionUpdate, StoriesUpdatedBroadcast(t)>>
                 ELSE <<StoriesUpdatedBroadcast(t)>>
    /\ Finish(i)
    /\ UNCHANGED <<store, registry>>

(* ---------------------- GET /api/sessions/:id/votes -------------------- *)
\* an HTTP response: it goes to the caller of the query, to no socket
httpResponse(status, body) ==
    [kind |-> "http", sid |-> NoId, exclude |-> 0, to |-> <<>>,
     msg |-> [type |-> "http", status |-> status, body |-> body]]

\* the status test that lets an unrevealed session pass
QueryStatusOpen(session) == IF session = Undefined THEN 404 ELSE 200

\* the status of the query after getSession: 404 without a session, 403 while
\* the session is not revealed, else 200
QueryStatus(session) ==
    IF session = Undefined THEN 404 ELSE IF ~session.revealed THEN 403 ELSE 200

\* start of the query: getSession(req.params.id)
GetVotesQuery(i, id) ==
    /\ FreeSlot(i)
    /\ Goto(i, [pc |-> "gv_check", id |-> id, session |-> getSession(id)])
    /\ out' = <<>>
    /\ UNCHANGED <<store, registry>>

\* after getSession: 404, 403, or getSessionVotes
GetVotesCheck(i) ==
    /\ At(i, "gv_check")
    /\ LET t == tasks[i]
           status == QueryStatus(t.session)
       IN IF status = 404
          THEN /\ out' = <<httpResponse(404, "Session not found")>>
               /\ Finish(i)
          ELSE IF status = 403
          THEN /\ out' = <<httpResponse(403, "Votes have not been revealed yet")>>
               /\ Finish(i)
          ELSE /\ Goto(i, [pc |-> "gv_reply", id |-> t.id, votes |-> getSessionVotes(t.id)])
               /\ out' = <<>>
    /\ UNCHANGED <<store, registry>>

\* after getSessionVotes: the votes
GetVotesReply(i) ==
    /\ At(i, "gv_reply")
    /\ out' = <<httpResponse(200, tasks[i].votes)>>
    /\ Finish(i)
    /\ UNCHANGED <<store, registry>>

(* ------------------------------ behaviours ----------------------------- *)
Init ==
    /\ sock = [c \in Conns |-> "new"]
    /\ clients = <<>>
    /\ clientObj = [c \in Conns |-> FreshClient]
    /\ sessionMap = <<>>
    /\ participantMap = <<>>
    /\ voteMap = <<>>
    /\ voteIdCounter = 1
    /\ storyMap = <<>>
    /\ tasks = [i \in TaskIds |-> Idle]
    /\ out = <<>>

\* connections, joins (with the given payloads, nanoid drawing from sids),
\* leaves and closes
JoinEvents(sids, payloads) ==
    \/ \E c \in Conns : Connect(c)
    \/ \E c \in Conns, i \in TaskIds, p \in payloads :
          \E nano \in NanoIds(p, sids) : JoinSession(c, i, p, nano)
    \/ \E c \in Conns, i \in TaskIds : LeaveSession(c, i)
    \/ \E c \in Conns, i \in TaskIds : Close(c, i)

JoinSteps ==
    \E i \in TaskIds :
        \/ JoinCreateCheck(i) \/ JoinCreateAdd(i) \/ JoinCreateBind(i)
        \/ JoinCreateList(i) \/ JoinCreateReply(i)
        \/ JoinLookup(i) \/ JoinDecide(i) \/ JoinBind(i) \/ JoinReply(i)
        \/ LeaveNotify(i) \/ CloseNotify(i)

\* Joins, leaves and closes whose handlers interleave at every await.  No session
\* is revealed in these behaviours, so no join awaits getSessionVotes.
Next == JoinEvents(SessionIds, JoinPayloadsValid(SessionIds, {"ann"})) \/ JoinSteps
Spec == Init /\ [][Next]_vars

\* the events of the voting round and of the story list
VoteEvents ==
    \/ \E c \in Conns, i \in TaskIds, value \in Values \cup {""} : CastVote(c, i, value)
    \/ \E c \in Conns, i \in TaskIds : RevealVotes(c, i)
    \/ \E c \in Conns, i \in TaskIds : ResetVoting(c, i)
    \/ \E c \in Conns, i \in TaskIds : \E storyId \in 0..MaxStories :
          SetCurrentStory(c, i, storyId)
    \/ \E c \in Conns, i \in TaskIds, p \in SetStoryPayloads : SetStory(c, i, p)

StoryEvents ==
    \/ \E c \in Conns, i \in TaskIds, title \in Titles \cup {Empty}, link \in Links :
          AddStory(c, i, title, link)
    \/ \E c \in Conns, i \in TaskIds : GetStories(c, i)
    \/ \E c \in Conns, i \in TaskIds, p \in UpdateStoryPayloads : UpdateStory(c, i, p)

VoteSteps ==
    \E i \in TaskIds :
        \/ CastVoteStore(i) \/ CastVoteNotify(i) \/ CastVoteCount(i) \/ CastVoteSignal(i)
        \/ RevealFetch(i) \/ RevealNotify(i)
        \/ ResetCheck(i) \/ ResetFind(i) \/ ResetMarked(i) \/ ResetUpdate(i)
        \/ ResetStories(i) \/ ResetNotify(i)
        \/ SetCurrentUpdate(i) \/ SetCurrentReset(i) \/ SetCurrentNotify(i)
        \/ SetStoryReset(i) \/ SetStoryNotify(i)
        \/ SetStoryUpdateCheck(i) \/ SetStoryUpdateList(i) \/ SetStoryUpdateSession(i)
        \/ SetStoryUpdateCurrent(i) \/ SetStoryUpdateNotify(i)

StorySteps ==
    \E i \in TaskIds : AddStoryNotify(i) \/ GetStoriesReply(i)

\* no handler is in progress
Quiet == \A i \in TaskIds : tasks[i] = Idle

\* Joins, leaves, closes and reveals handled one at a time: an event starts only when no
\* handler is in progress, so every handler runs from its start to its end
\* without another event in between.
JoinSerialEvents ==
    \/ JoinEvents(SessionIds, JoinPayloads(SessionIds, Names))
    \/ \E c \in Conns, i \in TaskIds : RevealVotes(c, i)
JoinSerialSteps ==
    \/ JoinSteps
    \/ \E i \in TaskIds : JoinVotes(i) \/ RevealFetch(i) \/ RevealNotify(i)
NextJoinSerial == (Quiet /\ JoinSerialEvents) \/ JoinSerialSteps
SpecJoinSerial == Init /\ [][NextJoinSerial]_vars

(* ------------------------------ a room --------------------------------- *)
\* The state after socket 1 created session S1 as ann and socket 2 joined it as
\* bob, one event after the other: both sockets open and bound, no vote, no
\* story.  SpecJoinSerial reaches it (RoomState).
RoomAnn == [id |-> 1, sessionId |-> "S1", name |-> "ann", isAdmin |-> TRUE,
            connected |-> TRUE]
RoomBob == [id |-> 2, sessionId |-> "S1", name |-> "bob", isAdmin |-> FALSE,
            connected |-> TRUE]
RoomState ==
    /\ sock = [c \in Conns |-> IF c \in {1, 2} THEN "open" ELSE "new"]
    /\ clients = <<1, 2>>
    /\ clientObj = [c \in Conns |->
                      IF c = 1 THEN [participant |-> RoomAnn, sessionId |-> "S1"]
                      ELSE IF c = 2 THEN [participant |-> RoomBob, sessionId |-> "S1"]
                      ELSE FreshClient]
    /\ sessionMap = ("S1" :> NewSession("S1"))
    /\ participantMap = <<RoomAnn, RoomBob>>
    /\ voteMap = <<>>
    /\ voteIdCounter = 1
    /\ storyMap = <<>>
    /\ tasks = [i \in TaskIds |-> Idle]
    /\ out = <<[kind |-> "send", sid |-> NoId, exclude |-> 0, to |-> <<2>>,
                msg |-> [type |-> "session_update", sessionId |-> "S1",
                         participant |-> RoomBob, session |-> NewSession("S1"),
                         participants |-> <<RoomAnn, RoomBob>>, votes |-> <<>>]]>>

CastEvents ==
    \/ \E c \in Conns, i \in TaskIds, value \in Values \cup {""} : CastVote(c, i, value)
    \/ \E c \in Conns, i \in TaskIds : RevealVotes(c, i)
CastSteps ==
    \E i \in TaskIds :
        \/ CastVoteStore(i) \/ CastVoteNotify(i) \/ CastVoteCount(i) \/ CastVoteSignal(i)
        \/ RevealFetch(i) \/ RevealNotify(i)

\* Votes and reveals in the room, handlers interleaving at every await.
NextCast == CastEvents \/ CastSteps
SpecCast == RoomState /\ [][NextCast]_vars

RoundEvents ==
    \/ \E c \in Conns, i \in TaskIds : RevealVotes(c, i)
    \/ \E c \in Conns, i \in TaskIds : ResetVoting(c, i)
    \/ \E c \in Conns, i \in TaskIds : \E storyId \in 0..MaxStories :
          SetCurrentStory(c, i, storyId)
    \/ \E c \in Conns, i \in TaskIds, p \in SetStoryRegular : SetStory(c, i, p)
    \/ \E c \in Conns, i \in TaskIds : AddStory(c, i, <<"t">>, <<"l">>)
RoundSteps ==
    \E i \in TaskIds :
        \/ RevealFetch(i) \/ RevealNotify(i)
        \/ ResetCheck(i) \/ ResetFind(i) \/ ResetMarked(i) \/ ResetUpdate(i)
        \/ ResetStories(i) \/ ResetNotify(i)
        \/ SetCurrentUpdate(i) \/ SetCurrentReset(i) \/ SetCurrentNotify(i)
        \/ SetStoryReset(i) \/ SetStoryNotify(i)
        \/ AddStoryNotify(i)

\* Reveals, resets and story selection (Set Current Story, and Set Story with
\* free text) in the room, handlers interleaving at every await.
NextRound == RoundEvents \/ RoundSteps
SpecRound == RoomState /\ [][NextRound]_vars

\* The voting round in the room, events handled one at a time.
NextVoteSerial == (Quiet /\ (VoteEvents \/ StoryEvents)) \/ VoteSteps \/ StorySteps
SpecVoteSerial == RoomState /\ [][NextVoteSerial]_vars

\* Votes in the room while its members leave, disconnect and join again, events
\* handled one at a time.
RoomSerialEvents ==
    \/ \E c \in Conns, i \in TaskIds, value \in Values \cup {""} : CastVote(c, i, value)
    \/ \E c \in Conns, i \in TaskIds : LeaveSession(c, i)
    \/ \E c \in Conns, i \in TaskIds : Close(c, i)
    \/ \E c \in Conns, i \in TaskIds, name \in Names :
          JoinSession(c, i, [sessionId |-> "S1", name |-> name, isAdmin |-> FALSE,
                             sessionName |-> "", votingSystem |-> ""], NoId)
RoomSerialSteps ==
    \E i \in TaskIds :
        \/ CastVoteStore(i) \/ CastVoteNotify(i) \/ CastVoteCount(i) \/ CastVoteSignal(i)
        \/ LeaveNotify(i) \/ CloseNotify(i)
        \/ JoinLookup(i) \/ JoinDecide(i) \/ JoinBind(i) \/ JoinReply(i)
NextRoomSerial == (Quiet /\ RoomSerialEvents) \/ RoomSerialSteps
SpecRoomSerial == RoomState /\ [][NextRoomSerial]_vars

\* The story list and the story selection in the room, with votes cast in
\* between, events handled one at a time.
StorySerialEvents ==
    \/ StoryEvents
    \/ \E c \in Conns, i \in TaskIds : \E storyId \in 0..MaxStories :
          SetCurrentStory(c, i, storyId)
    \/ \E c \in Conns, i \in TaskIds, p \in SetStoryPayloads : SetStory(c, i, p)
    \/ \E c \in Conns, i \in TaskIds : CastVote(c, i, "5")
StorySerialSteps ==
    \/ StorySteps
    \/ \E i \in TaskIds :
        \/ SetCurrentUpdate(i) \/ SetCurrentReset(i) \/ SetCurrentNotify(i)
        \/ SetStoryReset(i) \/ SetStoryNotify(i)
        \/ SetStoryUpdateCheck(i) \/ SetStoryUpdateList(i) \/ SetStoryUpdateSession(i)
        \/ SetStoryUpdateCurrent(i) \/ SetStoryUpdateNotify(i)
        \/ CastVoteStore(i) \/ CastVoteNotify(i) \/ CastVoteCount(i) \/ CastVoteSignal(i)
NextStorySerial == (Quiet /\ StorySerialEvents) \/ StorySerialSteps
SpecStorySerial == RoomState /\ [][NextStorySerial]_vars

\* The voting round and the story list in the room while members leave, events
\* handled one at a time.
NextLeaveSerial ==
    \/ Quiet /\ (VoteEvents \/ StoryEvents)
    \/ Quiet /\ \E c \in Conns, i \in TaskIds : LeaveSession(c, i)
    \/ VoteSteps \/ StorySteps
    \/ \E i \in TaskIds : LeaveNotify(i)
SpecLeaveSerial == RoomState /\ [][NextLeaveSerial]_vars

\* Votes and leaves in the room, handlers interleaving at every await.  No
\* socket joins again, so a socket that left stays Unbound.
NextCastLeave ==
    \/ \E c \in Conns, i \in TaskIds, value \in Values \cup {""} : CastVote(c, i, value)
    \/ \E c \in Conns, i \in TaskIds : LeaveSession(c, i)
    \/ \E i \in TaskIds :
        \/ CastVoteStore(i) \/ CastVoteNotify(i) \/ CastVoteCount(i) \/ CastVoteSignal(i)
        \/ LeaveNotify(i)
SpecCastLeave == RoomState /\ [][NextCastLeave]_vars

\* Votes, reveals and the votes query in the room while its members leave,
\* disconnect and join again, events handled one at a time.
RevealSerialEvents ==
    \/ RoomSerialEvents
    \/ \E c \in Conns, i \in TaskIds : RevealVotes(c, i)
    \/ \E i \in TaskIds, id \in SessionIds : GetVotesQuery(i, id)
RevealSerialSteps ==
    \/ RoomSerialSteps
    \/ \E i \in TaskIds :
        \/ JoinVotes(i) \/ RevealFetch(i) \/ RevealNotify(i)
        \/ GetVotesCheck(i) \/ GetVotesReply(i)
NextRevealSerial == (Quiet /\ RevealSerialEvents) \/ RevealSerialSteps
SpecRevealSerial == RoomState /\ [][NextRevealSerial]_vars

(* ----------------------------- two sessions ---------------------------- *)
\* The state after socket 1 created session S1 as ann and socket 2 created
\* session S2 as bob, one event after the other: both sockets open and bound,
\* each the administrator of its own session.  SpecJoinSerial reaches it
\* (TwoRoomsState).
TwoRoomsBob == [id |-> 2, sessionId |-> "S2", name |-> "bob", isAdmin |-> TRUE,
                connected |-> TRUE]
TwoRoomsState ==
    /\ sock = [c \in Conns |-> IF c \in {1, 2} THEN "open" ELSE "new"]
    /\ clients = <<1, 2>>
    /\ clientObj = [c \in Conns |->
                      IF c = 1 THEN [participant |-> RoomAnn, sessionId |-> "S1"]
                      ELSE IF c = 2 THEN [participant |-> TwoRoomsBob, sessionId |-> "S2"]
                      ELSE FreshClient]
    /\ sessionMap = ("S1" :> NewSession("S1")) @@ ("S2" :> NewSession("S2"))
    /\ participantMap = <<RoomAnn, TwoRoomsBob>>
    /\ voteMap = <<>>
    /\ voteIdCounter = 1
    /\ storyMap = <<>>
    /\ tasks = [i \in TaskIds |-> Idle]
    /\ out = <<[kind |-> "send", sid |-> NoId, exclude |-> 0, to |-> <<2>>,
                msg |-> [type |-> "session_update", sessionId |-> "S2",
                         participant |-> TwoRoomsBob, session |-> NewSession("S2"),
                         participants |-> <<TwoRoomsBob>>, votes |-> <<>>]]>>

\* The story list and the story selection of two sessions, with votes cast in
\* between, events handled one at a time.
SpecTwoSerial == TwoRoomsState /\ [][NextStorySerial]_vars

(* ======================= claims: joins and the registry ================= *)
\* rows of session sid named name, connected or not
NamedRows(sid, name, connected) ==
    {k \in DOMAIN participantMap :
        /\ participantMap[k].sessionId = sid
        /\ participantMap[k].name = name
        /\ participantMap[k].connected = connected}
\* the step taken is a step of the handler in slot i
StepOf(i) == tasks'[i] # tasks[i]
\* the sockets the entries of an output sequence were delivered to
Receivers(o) == UNION {Range(o[k].to) : k \in DOMAIN o}
\* o is exactly one error event, delivered to socket c
ErrorOnlyTo(o, c) ==
    Len(o) = 1 /\ o[1].kind = "send" /\ o[1].msg.type = "error" /\ o[1].to = <<c>>

\* C1: no session holds two connected participants with the same display name.
C1_UniqueConnectedNames ==
    \A a, b \in DOMAIN participantMap :
        ( /\ a # b
          /\ participantMap[a].sessionId = participantMap[b].sessionId
          /\ participantMap[a].connected /\ participantMap[b].connected )
        => participantMap[a].name # participantMap[b].name

\* the handler in slot i is the only one in progress, and what its lookup
\* returned is what the store returns now
JoinAlone(i) ==
    /\ \A j \in TaskIds \ {i} : tasks[j] = Idle
    /\ Receives(tasks[i].conn)
    /\ tasks[i].session = getSession(tasks[i].sid)
    /\ At(i, "je_decide")
       => tasks[i].existingParticipant
             = getParticipantByName(tasks[i].sid, tasks[i].name)

\* C2: a join of an existing session under a name that a connected participant
\* of that session has, handled with no other handler in progress, is rejected:
\* from its lookup to its end the handler writes no participant row and no
\* registry entry, and it ends with one error event to the originating socket
\* and nothing to any other socket.
C2_RejectConnectedName ==
    [][\A i \in TaskIds :
        ( /\ tasks[i].pc \in {"je_lookup", "je_decide"}
          /\ StepOf(i)
          /\ JoinAlone(i)
          /\ NamedRows(tasks[i].sid, tasks[i].name, TRUE) # {} )
        => /\ participantMap' = participantMap
           /\ clientObj' = clientObj /\ clients' = clients
           /\ Receivers(out') \subseteq {tasks[i].conn}
           /\ tasks'[i].pc \in {"je_decide", "idle"}
           /\ tasks'[i] = Idle => ErrorOnlyTo(out', tasks[i].conn)
           /\ tasks[i].pc = "je_decide" => tasks'[i] = Idle
      ]_vars

\* C3: a join of an existing session under the name of a disconnected participant
\* p, handled with no other handler in progress, reactivates p: the store write sets p.connected and changes nothing else (no
\* row is added, p's admin flag and identifier stay), and the connection is then
\* bound to p's identifier and to the session.
C3_ReactivateDisconnected ==
    [][\A i \in TaskIds :
        /\ ( /\ At(i, "je_decide") /\ StepOf(i) /\ JoinAlone(i)
             /\ NamedRows(tasks[i].sid, tasks[i].name, FALSE) # {} )
           => \E k \in NamedRows(tasks[i].sid, tasks[i].name, FALSE) :
                 /\ participantMap' = [participantMap EXCEPT ![k].connected = TRUE]
                 /\ tasks'[i].pc = "je_bind"
                 /\ tasks'[i].participant = participantMap'[k]
        /\ ( At(i, "je_bind") /\ StepOf(i) /\ JoinAlone(i) )
           => LET c == tasks[i].conn
                  p == tasks[i].participant
              IN /\ clientObj'[c].sessionId = tasks[i].sid
                 /\ clientObj'[c].participant.id = p.id
                 /\ participantMap' = participantMap
                 /\ participantMap[p.id].connected
                 /\ participantMap[p.id].sessionId = tasks[i].sid
                 /\ participantMap[p.id].isAdmin = clientObj'[c].participant.isAdmin
      ]_vars

\* C4: no two registry entries are bound to the same participant identifier.
C4_OneEntryPerParticipant ==
    \A c, d \in Conns :
        ( /\ c # d /\ Registered(c) /\ Registered(d)
          /\ clientObj[c].participant # Undefined
          /\ clientObj[d].participant # Undefined )
        => clientObj[c].participant.id # clientObj[d].participant.id

\* C7: a broadcast to session S is delivered to exactly the registered, open
\* sockets whose entry is bound to S when the call is made, other than the
\* excluded one; so never to a socket bound to another session.  (A step that
\* broadcasts changes no entry but that of its own socket, which it excludes.)
C7_BroadcastScope ==
    [][\A k \in DOMAIN out' :
        out'[k].kind = "broadcast"
        => Range(out'[k].to) =
              {c \in Conns : /\ Registered(c)
                             /\ clientObj[c].sessionId = out'[k].sid
                             /\ sock[c] = "open"
                             /\ c # out'[k].exclude}
      ]_vars

\* a broadcast to one session has just been made while a registered open
\* socket, not the excluded one, is bound to another session: it got nothing
C7_Witness ==
    \E k \in DOMAIN out : \E c \in Conns :
        /\ out[k].kind = "broadcast" /\ out[k].sid \in SessionIds
        /\ Registered(c) /\ sock[c] = "open" /\ c # out[k].exclude
        /\ clientObj[c].sessionId \in SessionIds \ {out[k].sid}
        /\ c \notin Range(out[k].to)

(* ========================= claims: the voting round ==================== *)
\* the votes of session sid and participant pid, as positions of voteMap
VotesOf(sid, pid) ==
    {k \in DOMAIN voteMap :
        voteMap[k].sessionId = sid /\ voteMap[k].participantId = pid}
\* the session a handler's socket is bound to
SessionOf(i) == clientObj[tasks[i].conn].sessionId
\* an event of the given first position starts in slot i
Starts(i, pc) == tasks[i] = Idle /\ tasks'[i].pc = pc

\* C5: the store holds at most one vote per (session, participant) pair.
C5_OneVotePerPair ==
    \A a, b \in DOMAIN voteMap :
        a # b => ~( /\ voteMap[a].sessionId = voteMap[b].sessionId
                    /\ voteMap[a].participantId = voteMap[b].participantId )

\* C6: when castVote stores a vote for a pair that has no vote, the store then
\* holds exactly one vote of the pair, with the value cast; when it stores a vote
\* for a pair whose earlier cast left a vote, the store still holds exactly one
\* vote of the pair, with the identifier of the earlier vote and the new value.
C6_RecastOverwrites ==
    [][\A i \in TaskIds :
        ( At(i, "cv_store") /\ StepOf(i) )
        => LET v == tasks[i].vote
               before == {voteMap[k] : k \in VotesOf(v.sessionId, v.participantId)}
               after == {voteMap'[k] : k \in {m \in DOMAIN voteMap' :
                            /\ voteMap'[m].sessionId = v.sessionId
                            /\ voteMap'[m].participantId = v.participantId}}
           IN /\ Cardinality(after) = 1
              /\ \A r \in after : r.value = v.value
              /\ before = {} => \A r \in after : r.id = voteIdCounter
              /\ before # {} => /\ {r.id : r \in after} = {r.id : r \in before}
                                /\ Len(voteMap') = Len(voteMap)
      ]_vars

\* a recast has just been stored: the vote kept an identifier older than the
\* newest one handed out
C6_Witness ==
    \E i \in TaskIds :
        /\ At(i, "cv_notify")
        /\ tasks[i].vote.id < voteIdCounter - 1
        /\ \E k \in DOMAIN voteMap : voteMap[k] = tasks[i].vote

C9_Reveal ==
    [][\A i \in TaskIds :
        /\ Starts(i, "rv_votes")
           => LET sid == clientObj[tasks'[i].conn].sessionId
              IN /\ sessionMap'[sid].revealed
                 /\ sessionMap[sid].revealed => sessionMap' = sessionMap
                 /\ UNCHANGED <<participantMap, voteMap, voteIdCounter, storyMap>>
        /\ ( tasks[i].pc \in {"rv_votes", "rv_notify"} /\ StepOf(i) )
           => UNCHANGED store
        /\ ( At(i, "rv_notify") /\ StepOf(i) )
           => /\ Len(out') = 1
              /\ out'[1].kind = "broadcast"
              /\ out'[1].msg.type = "votes_revealed"
              /\ out'[1].msg.votes = SelectSeq(voteMap, LAMBDA v : v.sessionId = SessionOf(i))
              /\ out'[1].msg.session.revealed
              /\ tasks[i].conn \in Range(out'[1].to)
              /\ Range(out'[1].to) =
                    {c \in Conns : Registered(c) /\ sock[c] = "open"
                                   /\ clientObj[c].sessionId = SessionOf(i)}
      ]_vars

\* votes_revealed has just reached both members of the room, votes included
C9_Witness ==
    /\ Len(out) = 1 /\ out[1].msg.type = "votes_revealed"
    /\ Len(out[1].to) = 2 /\ Len(out[1].msg.votes) = 2
    /\ Len(voteMap) = 2

\* C10: while a Reset Voting has done its story step and not yet written the
\* session, a story of the session whose descriptor is the session's current
\* story is completed; once it has written the session, the current story is
\* null, revealed is false and the session has no vote.
C10_ResetCompletesCurrent ==
    \A i \in TaskIds :
        /\ At(i, "rs_update")
           => LET sid == SessionOf(i)
                  cur == {k \in DOMAIN storyMap :
                             /\ storyMap[k].sessionId = sid
                             /\ Descriptor(storyMap[k].title, storyMap[k].link)
                                    = sessionMap[sid].currentStory}
              IN cur # {} => \E k \in cur : storyMap[k].isCompleted
        /\ tasks[i].pc \in {"rs_stories", "rs_notify"}
           => /\ sessionMap[SessionOf(i)].currentStory = Null
              /\ ~sessionMap[SessionOf(i)].revealed
              /\ getSessionVotes(SessionOf(i)) = <<>>

(* ===================== claims: signals, errors, stories ================ *)
\* the connected participants of session sid, as positions of participantMap
ConnectedOf(sid) ==
    {k \in DOMAIN participantMap :
        participantMap[k].sessionId = sid /\ participantMap[k].connected}
\* an output sequence holds the all-votes-in broadcast to session sid
SignalsAllVotesIn(o, sid) ==
    \E k \in DOMAIN o :
        /\ o[k].kind = "broadcast" /\ o[k].sid = sid
        /\ o[k].msg.type = "session_update"
        /\ "allVotesIn" \in DOMAIN o[k].msg /\ o[k].msg.allVotesIn

\* C11: the last step of a Cast Vote that stored its vote for session S
\* broadcasts the all-votes-in signal to S if and only if the number of votes
\* stored for S equals the number of connected participants of S; with two
\* connected participants it does not after the first vote and does after the
\* second.
C11_AllVotesInSignal ==
    [][\A i \in TaskIds :
        ( At(i, "cv_signal") /\ StepOf(i) )
        => LET sid == SessionOf(i)
               n == Len(getSessionVotes(sid))
               m == Cardinality(ConnectedOf(sid))
           IN /\ SignalsAllVotesIn(out', sid) <=> n = m
              /\ (m = 2 /\ n = 1) => out' = <<>>
              /\ (m = 2 /\ n = 2) => SignalsAllVotesIn(out', sid)
      ]_vars

\* the second member's vote has just completed the set: two connected
\* participants, two votes, the signal sent to both
C11_Witness ==
    /\ SignalsAllVotesIn(out, "S1")
    /\ Cardinality(ConnectedOf("S1")) = 2
    /\ Len(getSessionVotes("S1")) = 2
    /\ Len(out[1].to) = 2

\* an event that only administrators may send is received on socket c
AdminEvent(c, i) ==
    \/ \E title \in Titles \cup {Empty}, link \in Links : AddStory(c, i, title, link)
    \/ \E p \in UpdateStoryPayloads : UpdateStory(c, i, p)
    \/ \E storyId \in 0..MaxStories : SetCurrentStory(c, i, storyId)
    \/ \E p \in SetStoryPayloads : SetStory(c, i, p)

\* C12: an Add Story, Update Story, Set Current Story or Set Story event from a
\* socket bound to a participant that is not an administrator ends at once with
\* one error event to that socket and to no other; the store and the registry
\* are unchanged.
C12_NonAdminRejected ==
    [][\A c \in Conns, i \in TaskIds :
        ( /\ Bound(c) /\ ~clientObj[c].participant.isAdmin
          /\ AdminEvent(c, i) )
        => /\ ErrorOnlyTo(out', c)
           /\ UNCHANGED <<store, registry, tasks>>
      ]_vars

\* the member who is not an administrator has just been refused the selection
\* of a story that exists
C12_Witness ==
    /\ ErrorOnlyTo(out, 2)
    /\ out[1].msg.message = "Only administrators can set the current story"
    /\ ~clientObj[2].participant.isAdmin
    /\ Len(storyMap) > 0

\* an event that needs a Bound socket, other than Update Story, is received on
\* socket c
SessionEvent(c, i) ==
    \/ LeaveSession(c, i)
    \/ \E value \in Values \cup {""} : CastVote(c, i, value)
    \/ RevealVotes(c, i)
    \/ ResetVoting(c, i)
    \/ \E title \in Titles \cup {Empty}, link \in Links : AddStory(c, i, title, link)
    \/ GetStories(c, i)
    \/ \E p \in SetStoryPayloads : SetStory(c, i, p)
    \/ \E storyId \in 0..MaxStories : SetCurrentStory(c, i, storyId)
\* the answer to an event on an Unbound socket c
NotInSession(c) ==
    /\ out' = <<sendError(c, "Not in a session")>>
    /\ UNCHANGED <<store, registry, tasks>>

\* C13: a Leave, Cast Vote, Reveal Votes, Reset Voting, Add Story, Update
\* Story, Get Stories, Set Story or Set Current Story event received on an
\* Unbound socket is answered with the error "Not in a session" to that socket
\* alone; the store and the registry are unchanged, so the socket stays Unbound.
C13_UnboundNotInSession ==
    [][\A c \in Conns, i \in TaskIds :
        ( /\ ~Bound(c)
          /\ SessionEvent(c, i) \/ \E p \in UpdateStoryPayloads : UpdateStory(c, i, p) )
        => NotInSession(c)
      ]_vars

\* the same for the events other than Update Story
C13_UnboundOthers ==
    [][\A c \in Conns, i \in TaskIds :
        ( ~Bound(c) /\ SessionEvent(c, i) ) => NotInSession(c)
      ]_vars

\* C14: a handler that ends with an error event to its socket has left the
\* store as it was.  A Cast Vote whose socket has become Unbound while it
\* awaited the store ends with the error "Failed to cast vote" (nothing binds
\* the socket again in these behaviours), so the store step of such a Cast Vote
\* changes nothing; and the step that sends the error changes nothing either.
C14_ErrorLeavesStore ==
    [][\A i \in TaskIds :
        /\ ( /\ At(i, "cv_store") /\ StepOf(i)
             /\ clientObj[tasks[i].conn].participant = Undefined )
           => UNCHANGED store
        /\ ( /\ StepOf(i) /\ tasks'[i] = Idle
             /\ ErrorOnlyTo(out', tasks[i].conn) )
           => UNCHANGED store
      ]_vars

\* C15: a Join (create) creates its session only when no session has the
\* identifier: the create step adds a new session with revealed = false and
\* replaces none, and while a session has the identifier the handler ends
\* with "Session already exists" and changes nothing.  The next steps add a
\* participant with isAdmin = true and bind the socket to it and the session.
C15_CreateOnce ==
    [][\A i \in TaskIds :
        /\ ( At(i, "jc_check") /\ StepOf(i) )
           => LET t == tasks[i] IN
              IF t.sid \in DOMAIN sessionMap
              THEN /\ ErrorOnlyTo(out', t.conn)
                   /\ out'[1].msg.message = "Session already exists"
                   /\ tasks'[i] = Idle
                   /\ UNCHANGED <<store, registry>>
              ELSE /\ DOMAIN sessionMap' = DOMAIN sessionMap \cup {t.sid}
                   /\ ~sessionMap'[t.sid].revealed
                   /\ \A id \in DOMAIN sessionMap : sessionMap'[id] = sessionMap[id]
                   /\ tasks'[i].pc = "jc_add"
        /\ ( At(i, "jc_add") /\ StepOf(i) )
           => /\ Len(participantMap') = Len(participantMap) + 1
              /\ participantMap'[Len(participantMap')].isAdmin
              /\ participantMap'[Len(participantMap')].sessionId = tasks[i].sid
              /\ tasks'[i].participant = participantMap'[Len(participantMap')]
        /\ ( At(i, "jc_bind") /\ StepOf(i) )
           => /\ clientObj'[tasks[i].conn].participant = tasks[i].participant
              /\ clientObj'[tasks[i].conn].sessionId = tasks[i].sid
      ]_vars

\* the registered open sockets bound to session sid, other than c
OthersOf(sid, c) ==
    {d \in Conns \ {c} : Registered(d) /\ sock[d] = "open" /\ clientObj[d].sessionId = sid}

\* C16: a Leave of a socket bound to participant p of session S sets
\* p.connected to false and changes nothing else in the store; its last step
\* sends participant_left to the other open sockets bound to S and not to the
\* sender, clears the sender's entry and keeps it in the registry, and leaves
\* the store (votes, stories and session flags among it) unchanged.
C16_Leave ==
    [][\A i \in TaskIds :
        /\ Starts(i, "lv_notify")
           => LET c == tasks'[i].conn
                  p == clientObj[c].participant
              IN /\ Bound(c)
                 /\ participantMap' = [participantMap EXCEPT ![p.id].connected = FALSE]
                 /\ UNCHANGED <<sessionMap, voteMap, voteIdCounter, storyMap, registry>>
        /\ ( At(i, "lv_notify") /\ StepOf(i) )
           => LET c == tasks[i].conn
                  p == clientObj[c].participant
                  sid == clientObj[c].sessionId
              IN /\ Len(out') = 2
                 /\ out'[1].kind = "broadcast"
                 /\ out'[1].msg = [type |-> "participant_left", participantId |-> p.id]
                 /\ Range(out'[1].to) = OthersOf(sid, c)
                 /\ out'[2].msg.type = "leave_session" /\ out'[2].to = <<c>>
                 /\ ~participantMap[p.id].connected
                 /\ clientObj' = [clientObj EXCEPT ![c] = FreshClient]
                 /\ Registered(c)
                 /\ UNCHANGED <<store, sock, clients>>
      ]_vars

\* a member has just left: the other member was told, the sender's entry is
\* registered and Unbound, and a stored vote is still there
C16_Witness ==
    /\ Len(out) = 2 /\ out[1].msg.type = "participant_left" /\ Len(out[1].to) = 1
    /\ \E c \in Conns : /\ out[2].to = <<c>>
                        /\ Registered(c) /\ ~Bound(c) /\ c \notin Range(out[1].to)
    /\ Len(voteMap) > 0

\* C17: when the transport of a Bound socket closes, the handler sets
\* connected = false on the bound participant and, in its last step, sends
\* participant_left to the other open sockets bound to the session and removes
\* the socket's registry entry; when an Unbound socket closes, its registry
\* entry is removed in the same step, nothing is sent, and the store and the
\* other entries are unchanged.
C17_Close ==
    [][\A c \in Conns :
        /\ ( sock[c] = "open" /\ sock'[c] = "closed" /\ Registered(c) /\ Bound(c) )
           => /\ participantMap' =
                    [participantMap EXCEPT ![clientObj[c].participant.id].connected = FALSE]
              /\ \E i \in TaskIds : Starts(i, "cl_notify") /\ tasks'[i].conn = c
              /\ UNCHANGED <<sessionMap, voteMap, voteIdCounter, storyMap, clients, clientObj>>
        /\ ( sock[c] = "open" /\ sock'[c] = "closed" /\ Registered(c) /\ ~Bound(c) )
           => /\ clients' = SelectSeq(clients, LAMBDA x : x # c)
              /\ out' = <<>>
              /\ UNCHANGED <<store, clientObj, tasks>>
        /\ \A i \in TaskIds :
            ( At(i, "cl_notify") /\ StepOf(i) /\ tasks[i].conn = c )
            => /\ ~participantMap[clientObj[c].participant.id].connected
               /\ Len(out') = 1
               /\ out'[1].msg = [type |-> "participant_left",
                                 participantId |-> clientObj[c].participant.id]
               /\ Range(out'[1].to) = OthersOf(clientObj[c].sessionId, c)
               /\ ~(c \in Range(clients'))
               /\ Range(clients') = Range(clients) \ {c}
               /\ tasks'[i] = Idle
               /\ UNCHANGED <<store, sock, clientObj>>
      ]_vars

\* the transport of a member has just closed: the other member was told, the
\* entry is gone and the participant is disconnected
C17_Witness ==
    /\ Len(out) = 1 /\ out[1].msg.type = "participant_left" /\ Len(out[1].to) = 1
    /\ \E c \in Conns :
          /\ sock[c] = "closed" /\ ~Registered(c)
          /\ ~participantMap[out[1].msg.participantId].connected
          /\ clientObj[c].participant.id = out[1].msg.participantId

(* ========================= claims: the story list ====================== *)
\* the registered open sockets bound to session sid
MembersOf(sid) ==
    {d \in Conns : Registered(d) /\ sock[d] = "open" /\ clientObj[d].sessionId = sid}

\* C18: a Set Current Story of a bound administrator of session S that names a
\* story s of S writes S.currentStory = "title (link)" of s and S.revealed =
\* false, then deletes the votes of S, and ends with one story_updated
\* broadcast to the sockets of S that carries the updated session and s, at
\* which point S has no vote; when the identifier names no story, or a story of
\* another session, the handler ends with "Story not found" and the store is
\* unchanged.
C18_SetCurrentStory ==
    [][\A i \in TaskIds :
        /\ Starts(i, "sc_update")
           => /\ \E storyId \in 0..MaxStories : tasks'[i].story = getStory(storyId)
              /\ UNCHANGED <<store, registry>>
        /\ ( At(i, "sc_update") /\ StepOf(i) )
           => LET t == tasks[i]
                  sid == SessionOf(i)
              IN IF t.story = Undefined \/ t.story.sessionId # sid
                 THEN /\ ErrorOnlyTo(out', t.conn)
                      /\ out'[1].msg.message = "Story not found"
                      /\ tasks'[i] = Idle
                      /\ UNCHANGED <<store, registry>>
                 ELSE /\ sessionMap' =
                            [sessionMap EXCEPT
                               ![sid].currentStory =
                                   t.story.title \o <<" ", "(">> \o t.story.link \o <<")">>,
                               ![sid].revealed = FALSE]
                      /\ tasks'[i].pc = "sc_reset"
                      /\ UNCHANGED <<participantMap, voteMap, voteIdCounter, storyMap,
                                     registry>>
        /\ ( At(i, "sc_reset") /\ StepOf(i) )
           => /\ voteMap' = SelectSeq(voteMap, LAMBDA v : v.sessionId # SessionOf(i))
              /\ tasks'[i].pc = "sc_notify"
              /\ UNCHANGED <<sessionMap, participantMap, storyMap, registry>>
        /\ ( At(i, "sc_notify") /\ StepOf(i) )
           => LET t == tasks[i]
                  sid == SessionOf(i)
              IN /\ Len(out') = 1 /\ out'[1].kind = "broadcast"
                 /\ out'[1].msg = [type |-> "story_updated", session |-> sessionMap[sid],
                                   currentStory |-> t.story]
                 /\ Range(out'[1].to) = MembersOf(sid)
                 /\ t.conn \in Range(out'[1].to)
                 /\ t.story = storyMap[t.story.id] /\ t.story.sessionId = sid
                 /\ sessionMap[sid].currentStory =
                       t.story.title \o <<" ", "(">> \o t.story.link \o <<")">>
                 /\ ~sessionMap[sid].revealed
                 /\ \A k \in DOMAIN voteMap : voteMap[k].sessionId # sid
                 /\ tasks'[i] = Idle
                 /\ UNCHANGED <<store, registry>>
      ]_vars

\* a story has just been selected in a session whose vote was deleted, while
\* the other session keeps its vote
C18_Witness ==
    /\ Len(out) = 1 /\ out[1].kind = "broadcast" /\ out[1].msg.type = "story_updated"
    /\ "currentStory" \in DOMAIN out[1].msg
    /\ out[1].to # <<>>
    /\ voteMap # <<>>
    /\ voteIdCounter > Len(voteMap) + 1

\* a story of the other session has just been named and refused
C18_WitnessNotFound ==
    /\ \E c \in Conns :
          /\ ErrorOnlyTo(out, c) /\ out[1].msg.message = "Story not found"
          /\ \E k \in DOMAIN storyMap : storyMap[k].sessionId # clientObj[c].sessionId

\* C19: an Update Story event of a bound administrator of session S for a
\* story s of S, with a title and a link, is accepted: it is not answered with
\* an error and its handler starts; the handler then replaces the title and
\* the link of s, rewrites S.currentStory when s was the current story, and
\* ends with a stories_updated broadcast to S.
C19_UpdateStoryAccepted ==
    [][\A c \in Conns, i \in TaskIds, p \in UpdateStoryPayloads :
        /\ ( /\ Bound(c) /\ clientObj[c].participant.isAdmin
             /\ p.title # Empty /\ p.link # Empty
             /\ getStory(p.storyId) # Undefined
             /\ getStory(p.storyId).sessionId = clientObj[c].sessionId
             /\ UpdateStory(c, i, p) )
           => /\ out' = <<>>
              /\ tasks'[i].pc = "us_check" /\ tasks'[i].storyId = p.storyId
        /\ ( At(i, "us_check") /\ StepOf(i) /\ tasks[i].storyId = p.storyId
             /\ tasks[i].title = p.title /\ tasks[i].link = p.link )
           => storyMap' = [storyMap EXCEPT ![p.storyId].title = Trim(p.title),
                                           ![p.storyId].link = Trim(p.link)]
        /\ ( tasks[i].pc \in {"us_current", "us_notify"} /\ StepOf(i)
             /\ tasks'[i] = Idle )
           => /\ out'[Len(out')].msg.type = "stories_updated"
              /\ Range(out'[Len(out')].to) = MembersOf(SessionOf(i))
      ]_vars

\* C20: for every session with a current story, at most one story row of the
\* session has the title encoded in the session's current-story descriptor.
C20_OneCurrentStory ==
    \A sid \in DOMAIN sessionMap :
        LET cur == sessionMap[sid].currentStory IN
        ( Truthy(cur) /\ StoryMatches(cur) )
        => Cardinality({k \in DOMAIN storyMap :
                           /\ storyMap[k].sessionId = sid
                           /\ storyMap[k].title = MatchTitle(cur)}) <= 1

(* ==================== claims: queries, joins, delivery ================= *)
\* C21: the query for the votes of a session is answered with the votes of the
\* session when the session is revealed, with status 403 when it is not and
\* with status 404 when there is no such session, and it writes nothing; the
\* session_update that ends a join of an existing session carries the votes
\* of the session when the session is revealed and an empty list otherwise.
C21_VotesOnlyWhenRevealed ==
    [][\A i \in TaskIds :
        /\ ( tasks[i].pc \in {"gv_check", "gv_reply"} /\ StepOf(i) )
           => LET id == tasks[i].id IN
              /\ UNCHANGED <<store, registry>>
              /\ tasks'[i] = Idle
                 => /\ Len(out') = 1 /\ out'[1].kind = "http" /\ out'[1].to = <<>>
                    /\ out'[1].msg.status =
                          IF id \notin DOMAIN sessionMap THEN 404
                          ELSE IF sessionMap[id].revealed THEN 200 ELSE 403
                    /\ out'[1].msg.status = 200
                          => out'[1].msg.body = getSessionVotes(id)
                    /\ out'[1].msg.status # 200
                          => out'[1].msg.body \in {"Session not found",
                                                   "Votes have not been revealed yet"}
              /\ tasks'[i] # Idle => sessionMap[id].revealed
        /\ ( At(i, "je_reply") /\ StepOf(i) )
           => /\ Len(out') = 1 /\ out'[1].msg.type = "session_update"
              /\ out'[1].msg.votes =
                    IF sessionMap[tasks[i].sid].revealed
                    THEN getSessionVotes(tasks[i].sid) ELSE <<>>
      ]_vars

\* the query has just returned the votes of the revealed session
C21_Witness ==
    /\ Len(out) = 1 /\ out[1].kind = "http" /\ out[1].msg.status = 200
    /\ Len(out[1].msg.body) > 0
    /\ sessionMap["S1"].revealed

\* a joiner has just been sent an empty vote list while the session, not
\* revealed, has a vote
C21_WitnessJoinHidden ==
    /\ Len(out) = 1 /\ out[1].kind = "send" /\ out[1].msg.type = "session_update"
    /\ "votes" \in DOMAIN out[1].msg /\ out[1].msg.votes = <<>>
    /\ ~sessionMap["S1"].revealed /\ voteMap # <<>>
    /\ participantMap # <<RoomAnn, RoomBob>>

\* the handler in slot i is a join of a session that has exactly one other
\* open socket bound to it and, the joiner included, two participant rows
JoinsOneMember(i) ==
    /\ tasks[i].pc \in {"je_bind", "je_votes", "je_reply"} /\ StepOf(i)
    /\ Cardinality(OthersOf(tasks[i].sid, tasks[i].conn)) = 1
    /\ Len(SelectSeq(participantMap, LAMBDA p : p.sessionId = tasks[i].sid)) = 2

\* C22 as stated: when a participant joins an existing session that has one
\* connected member, every message the join delivers, to the member and to the
\* joiner, is a session_update whose participant list has the 2 participants.
C22_BothSessionUpdate ==
    [][\A i \in TaskIds :
        JoinsOneMember(i)
        => \A k \in DOMAIN out' :
              out'[k].to # <<>>
              => /\ out'[k].msg.type = "session_update"
                 /\ Len(out'[k].msg.participants) = 2
      ]_vars

\* C22 amended: when a participant joins an existing session that has one
\* connected member, the member is sent participant_joined with the joining
\* participant, and then the joiner is sent a session_update whose participant
\* list is the 2 participants of the session.
C22_JoinNotifies ==
    [][\A i \in TaskIds :
        JoinsOneMember(i)
        => LET t == tasks[i]
               rows == SelectSeq(participantMap, LAMBDA p : p.sessionId = t.sid)
           IN /\ ( \/ At(i, "je_bind") /\ ~t.session.revealed
                   \/ At(i, "je_votes") )
                 => /\ Len(out') = 1
                    /\ out'[1].msg.type = "participant_joined"
                    /\ out'[1].msg.participant = participantMap[t.participant.id]
                    /\ Range(out'[1].to) = OthersOf(t.sid, t.conn)
                    /\ tasks'[i].pc = "je_reply"
              /\ At(i, "je_reply")
                 => /\ Len(out') = 1
                    /\ out'[1].msg.type = "session_update"
                    /\ out'[1].to = <<t.conn>>
                    /\ out'[1].msg.participants = rows
                    /\ \E k \in DOMAIN rows : rows[k] = clientObj[t.conn].participant
                    /\ \A d \in OthersOf(t.sid, t.conn) :
                          \E k \in DOMAIN rows : rows[k].id = clientObj[d].participant.id
                    /\ tasks'[i] = Idle
      ]_vars

\* a new participant has just joined the session of one connected member and
\* was sent the list of the 2 participants
C22_Witness ==
    /\ Len(out) = 1 /\ out[1].kind = "send" /\ out[1].msg.type = "session_update"
    /\ out[1].to = <<2>>
    /\ "participants" \in DOMAIN out[1].msg /\ Len(out[1].msg.participants) = 2
    /\ out[1].msg.participants = participantMap
    /\ clientObj[1].sessionId = clientObj[2].sessionId
    /\ clientObj[1].participant # Undefined /\ clientObj[2].participant # Undefined
    /\ clientObj[1].participant.id # clientObj[2].participant.id
    /\ \A k \in DOMAIN participantMap : participantMap[k].connected

(* ------------------------------ card scales ---------------------------- *)
\* getCardValues: the cards of a voting system, "?" last; any other name gets
\* the fibonacci cards
getCardValues(votingSystem) ==
    CASE votingSystem = "fibonacci" ->
            <<"0", "1", "2", "3", "5", "8", "13", "21", "?">>
      [] votingSystem = "tshirt" -> <<"XS", "S", "M", "L", "XL", "XXL", "?">>
      [] votingSystem = "standard" ->
            <<"0", "1", "2", "3", "4", "5", "6", "7", "8", "9", "10", "?">>
      [] OTHER -> <<"0", "1", "2", "3", "5", "8", "13", "21", "?">>

\* vote values a client can send: cards of the room's scale, the card of
\* another scale, a text that is on no scale
ScaleValues == {"5", "?", "XL", "banana"}

\* Votes in the room with values on and off the scale, events handled one at a
\* time.
ScaleSerialEvents ==
    \E c \in Conns, i \in TaskIds, value \in ScaleValues \cup {""} : CastVote(c, i, value)
ScaleSerialSteps ==
    \E i \in TaskIds :
        CastVoteStore(i) \/ CastVoteNotify(i) \/ CastVoteCount(i) \/ CastVoteSignal(i)
NextScaleSerial == (Quiet /\ ScaleSerialEvents) \/ ScaleSerialSteps
SpecScaleSerial == RoomState /\ [][NextScaleSerial]_vars

\* C23: every vote stored for a session has a value that is a card of the
\* scale of the session's voting system, "?" included; a Cast Vote with any
\* other value stores no vote.
C23_VotesOnScale ==
    \A k \in DOMAIN voteMap :
        voteMap[k].value
           \in Range(getCardValues(sessionMap[voteMap[k].sessionId].votingSystem))

(* -------------------------- aggregation functions ---------------------- *)
\* the vote collections given to the aggregation functions: up to MaxBallots
\* values, each a string kept as a sequence of characters: cards of the numeric
\* scales, the unknown card, a size card
MaxBallots == 5
Cards == {<<"1">>, <<"3">>, <<"5">>, <<"8">>, <<"1", "3">>, <<"?">>, <<"X", "L">>}
Ballots == UNION {[1..n -> Cards] : n \in 0..MaxBallots}

\* the JavaScript numbers met here are NaN and non-negative integers
NaN == [nan |-> TRUE]
Num(n) == [nan |-> FALSE, val |-> n]
isNaN(x) == x.nan

Digits == <<"0", "1", "2", "3", "4", "5", "6", "7", "8", "9">>
IsDigit(ch) == ch \in Range(Digits)
DigitValue(ch) == (CHOOSE k \in DOMAIN Digits : Digits[k] = ch) - 1
RECURSIVE DecimalValue(_, _)
DecimalValue(str, m) ==
    IF m = 0 THEN 0 ELSE 10 * DecimalValue(str, m - 1) + DigitValue(str[m])

\* parseFloat on strings without white space, sign, point or exponent: the
\* value of the longest prefix of digits, NaN when the string starts with none
parseFloat(str) ==
    LET m == CHOOSE m \in 0..Len(str) :
                 /\ \A k \in 1..m : IsDigit(str[k])
                 /\ m < Len(str) => ~IsDigit(str[m + 1])
    IN IF m = 0 THEN NaN ELSE Num(DecimalValue(str, m))

\* Number.prototype.toString of a non-negative integer
RECURSIVE numberToString(_)
numberToString(n) ==
    IF n < 10 THEN <<Digits[n + 1]>>
    ELSE Append(numberToString(n \div 10), Digits[(n % 10) + 1])

\* (num / den).toFixed(1) for num >= 0, den > 0: the nearest multiple of one
\* tenth, the larger one of two equally near. The quotient of the division is
\* the double nearest to num/den; it lies midway between two tenths only when
\* num/den is an odd multiple of 1/20, and for den below 20 that is a multiple
\* of 1/4, which is a double.
toFixed1(num, den) ==
    LET q == (20 * num + den) \div (2 * den)
    IN numberToString(q \div 10) \o <<".", Digits[(q % 10) + 1]>>

\* ratio <= t/10, the ratio a quotient of small integers
LessDecimal(ratio, t) == ratio.num * 10 < t * ratio.den
LeqDecimal(ratio, t) == ratio.num * 10 <= t * ratio.den

\* calculateConsensus
calculateConsensus(votes) ==
    IF Len(votes) = 0 THEN "No votes"
    ELSE LET uniqueVotes == Cardinality(Range(votes))
             consensusRatio == [num |-> uniqueVotes, den |-> Len(votes)]
         IN IF LeqDecimal(consensusRatio, 2) THEN "Strong"
            ELSE IF LeqDecimal(consensusRatio, 4) THEN "Moderate"
            ELSE "Weak"

getTShirtValue(size) ==
    CASE size = <<"X", "S">> -> 1
      [] size = <<"S">> -> 2
      [] size = <<"M">> -> 3
      [] size = <<"L">> -> 5
      [] size = <<"X", "L">> -> 8
      [] size = <<"X", "X", "L">> -> 13
      [] OTHER -> 0

\* the first filter of calculateStatistics that lets every vote pass
KeepUnknown(vote) == TRUE
\* the first filter of calculateStatistics: vote !== "?"
NotUnknown(vote) == vote # <<"?">>

\* Array.map over a sequence
Map(s, Op(_)) == [k \in DOMAIN s |-> Op(s[k])]

\* numericVotes: filter, map, filter
numericVotesOf(votes, votingSystem) ==
    LET known == SelectSeq(votes, NotUnknown)
        mapped == Map(known, LAMBDA vote :
                        IF votingSystem = "tshirt" THEN Num(getTShirtValue(vote))
                        ELSE parseFloat(vote))
        numbers == SelectSeq(mapped, LAMBDA x : ~isNaN(x))
    IN Map(numbers, LAMBDA x : x.val)

RECURSIVE Sum(_)
Sum(s) == IF s = <<>> THEN 0 ELSE Head(s) + Sum(Tail(s))

\* the array as it is, not sorted
SortNone(s) == s
\* [...numericVotes].sort((a, b) => a - b): ascending
RECURSIVE SortAsc(_)
SortAsc(s) ==
    IF s = <<>> THEN <<>>
    ELSE LET rest == SortAsc(Tail(s))
             lower == SelectSeq(rest, LAMBDA x : x <= Head(s))
             upper == SelectSeq(rest, LAMBDA x : x > Head(s))
         IN lower \o <<Head(s)>> \o upper

\* the keys of the object voteCounts in the order of Object.entries: keys that
\* are non-negative integers come in ascending numeric order, whatever the
\* order of their insertion
RECURSIVE Ascending(_)
Ascending(S) ==
    IF S = {} THEN <<>>
    ELSE LET m == CHOOSE x \in S : \A y \in S : x <= y
         IN <<m>> \o Ascending(S \ {m})
ownKeys(numericVotes) == Map(Ascending(Range(numericVotes)), numberToString)

\* the loop over Object.entries(voteCounts): a key replaces the mode when its
\* count is greater than the greatest count so far
RECURSIVE modeScan(_, _, _, _)
modeScan(entries, numericVotes, mode, maxCount) ==
    IF entries = <<>> THEN mode
    ELSE LET vote == Head(entries)
             count == Len(SelectSeq(numericVotes,
                                    LAMBDA x : numberToString(x) = vote))
         IN IF count > maxCount
            THEN modeScan(Tail(entries), numericVotes, parseFloat(vote), count)
            ELSE modeScan(Tail(entries), numericVotes, mode, maxCount)

NotAvailable == <<"N", "/", "A">>
\* the JavaScript value null, where a number is expected
NullNumber == [null |-> TRUE]

\* calculateStatistics
calculateStatistics(votes, votingSystem) ==
    LET numericVotes == numericVotesOf(votes, votingSystem)
    IN IF Len(numericVotes) = 0
       THEN [average |-> NotAvailable, median |-> NotAvailable, mode |-> NotAvailable]
       ELSE LET sum == Sum(numericVotes)
                sorted == SortAsc(numericVotes)
                middle == Len(sorted) \div 2
                mode == modeScan(ownKeys(numericVotes), numericVotes, NullNumber, 0)
            IN [average |-> toFixed1(sum, Len(numericVotes)),
                median |-> IF Len(sorted) % 2 = 0
                           THEN toFixed1(sorted[middle] + sorted[middle + 1], 2)
                           ELSE numberToString(sorted[middle + 1]),
                mode |-> IF mode # NullNumber THEN numberToString(mode.val)
                         ELSE NotAvailable]

\* a client computes the results of a vote collection; the result is what the
\* call returns
resultOf(value) ==
    [kind |-> "return", sid |-> NoId, exclude |-> 0, to |-> <<>>, msg |-> value]
Consensus(i) ==
    /\ At(i, "consensus")
    /\ out' = <<resultOf([type |-> "consensus", votes |-> tasks[i].votes,
                          consensus |-> calculateConsensus(tasks[i].votes)])>>
    /\ Finish(i)
    /\ UNCHANGED <<store, registry>>
Statistics(i) ==
    /\ At(i, "statistics")
    /\ out' = <<resultOf([type |-> "statistics", votes |-> tasks[i].votes,
                          votingSystem |-> tasks[i].votingSystem,
                          statistics |-> calculateStatistics(tasks[i].votes,
                                                             tasks[i].votingSystem)])>>
    /\ Finish(i)
    /\ UNCHANGED <<store, registry>>

\* The aggregation functions on every vote collection of Ballots.
ResultsInit ==
    /\ sock = [c \in Conns |-> "new"]
    /\ clients = <<>>
    /\ clientObj = [c \in Conns |-> FreshClient]
    /\ sessionMap = <<>>
    /\ participantMap = <<>>
    /\ voteMap = <<>>
    /\ voteIdCounter = 1
    /\ storyMap = <<>>
    /\ out = <<>>
    /\ \E votes \in Ballots :
          \/ tasks = [i \in TaskIds |->
                        IF i = 1 THEN [pc |-> "consensus", votes |-> votes] ELSE Idle]
          \/ \E votingSystem \in {"fibonacci", "tshirt"} :
                tasks = [i \in TaskIds |->
                           IF i = 1 THEN [pc |-> "statistics", votes |-> votes,
                                          votingSystem |-> votingSystem]
                           ELSE Idle]
NextResults == \E i \in TaskIds : Consensus(i) \/ Statistics(i)
SpecResults == ResultsInit /\ [][NextResults]_vars

(* --------------------- claims: aggregation functions ------------------- *)
\* the last step returned the result of the aggregation function `type`
Returned(type) ==
    Len(out) = 1 /\ out[1].kind = "return" /\ out[1].msg.type = type

\* C24: for a collection of n vote values with d distinct values,
\* calculateConsensus returns "No votes" exactly when n = 0; otherwise "Strong"
\* when 5*d <= n, "Moderate" when 5*d > n and 5*d <= 2*n, "Weak" in every other
\* case.
C24_Consensus ==
    Returned("consensus")
    => LET n == Len(out[1].msg.votes)
           d == Cardinality({out[1].msg.votes[k] : k \in 1..n})
           r == out[1].msg.consensus
       IN /\ (r = "No votes") <=> (n = 0)
          /\ n > 0 => /\ (r = "Strong") <=> (5 * d <= n)
                      /\ (r = "Moderate") <=> (5 * d > n /\ 5 * d <= 2 * n)
                      /\ (r = "Weak") <=> (5 * d > 2 * n)

\* five equal votes were classified "Strong"
C24_Witness ==
    /\ Returned("consensus")
    /\ Len(out[1].msg.votes) = 5
    /\ out[1].msg.consensus = "Strong"
\* five votes of two values were classified "Moderate"
C24_WitnessModerate ==
    /\ Returned("consensus")
    /\ Len(out[1].msg.votes) = 5
    /\ out[1].msg.consensus = "Moderate"

\* the vote is counted as a number: it is not "?" and, on a numeric scale, it
\* starts with a digit (on the size scale every other vote has a magnitude)
CountsAsNumber(vote, votingSystem) ==
    /\ vote # <<"?">>
    /\ votingSystem # "tshirt"
       => vote # <<>> /\ vote[1] \in {"0", "1", "2", "3", "4", "5", "6", "7", "8", "9"}

\* C25: calculateStatistics ignores every "?" vote; average, median and mode
\* are all "N/A" exactly when no numeric value remains after filtering; for
\* the votes "1", "3", "3", "?" on a numeric scale it returns average "2.3",
\* median "3" and mode "3".
C25_Statistics ==
    Returned("statistics")
    => LET votes == out[1].msg.votes
           votingSystem == out[1].msg.votingSystem
           r == out[1].msg.statistics
           none == \A k \in DOMAIN votes : ~CountsAsNumber(votes[k], votingSystem)
       IN /\ r = calculateStatistics(SelectSeq(votes, LAMBDA v : v # <<"?">>),
                                     votingSystem)
          /\ (r.average = <<"N", "/", "A">>) <=> none
          /\ (r.median = <<"N", "/", "A">>) <=> none
          /\ (r.mode = <<"N", "/", "A">>) <=> none
          /\ ( votes = << <<"1">>, <<"3">>, <<"3">>, <<"?">> >>
               /\ votingSystem = "fibonacci" )
             => r = [average |-> <<"2", ".", "3">>, median |-> <<"3">>,
                     mode |-> <<"3">>]

\* the statistics of the votes "1", "3", "3", "?" on the fibonacci scale
C25_Witness ==
    /\ Returned("statistics")
    /\ out[1].msg.votes = << <<"1">>, <<"3">>, <<"3">>, <<"?">> >>
    /\ out[1].msg.votingSystem = "fibonacci"
    /\ out[1].msg.statistics.average = <<"2", ".", "3">>
\* only "?" votes on the size scale: nothing is available
C25_WitnessUnknown ==
    /\ Returned("statistics")
    /\ out[1].msg.votes = << <<"?">>, <<"?">> >>
    /\ out[1].msg.votingSystem = "tshirt"
    /\ out[1].msg.statistics.mode = <<"N", "/", "A">>

\* C26: the mode returned by calculateStatistics is a value with the highest
\* occurrence count among the numeric votes, and among several values of the
\* highest count it is the one that occurs first in the input.
C26_ModeFirstOfTies ==
    ( Returned("statistics")
      /\ numericVotesOf(out[1].msg.votes, out[1].msg.votingSystem) # <<>> )
    => LET nums == numericVotesOf(out[1].msg.votes, out[1].msg.votingSystem)
           Count(x) == Cardinality({k \in DOMAIN nums : nums[k] = x})
           first == CHOOSE k \in DOMAIN nums :
                        /\ \A m \in DOMAIN nums : Count(nums[m]) <= Count(nums[k])
                        /\ \A m \in 1..(k - 1) : Count(nums[m]) < Count(nums[k])
       IN out[1].msg.statistics.mode = numberToString(nums[first])

\* the mode has the highest occurrence count among the numeric votes (side
\* check: this half of C26 holds)
C26_ModeHasHighestCount ==
    ( Returned("statistics")
      /\ numericVotesOf(out[1].msg.votes, out[1].msg.votingSystem) # <<>> )
    => LET nums == numericVotesOf(out[1].msg.votes, out[1].msg.votingSystem)
           Count(x) == Cardinality({k \in DOMAIN nums : nums[k] = x})
       IN \E k \in DOMAIN nums :
             /\ out[1].msg.statistics.mode = numberToString(nums[k])
             /\ \A m \in DOMAIN nums : Count(nums[m]) <= Count(nums[k])

\* C27: over the numeric votes in ascending order the median is the middle
\* value itself when their count is odd, and the mean of the two middle values
\* with one decimal place when it is even; for "5" and "8" it is "6.5".
\* The values at the middle positions of the ascending order are named by
\* counting: x is at position p when fewer than p votes are below x and at
\* least p votes are not above it.
C27_Median ==
    ( Returned("statistics")
      /\ numericVotesOf(out[1].msg.votes, out[1].msg.votingSystem) # <<>> )
    => LET nums == numericVotesOf(out[1].msg.votes, out[1].msg.votingSystem)
           n == Len(nums)
           AtPosition(p) ==
               CHOOSE x \in Range(nums) :
                   /\ Cardinality({k \in DOMAIN nums : nums[k] < x}) < p
                   /\ Cardinality({k \in DOMAIN nums : nums[k] <= x}) >= p
           median == out[1].msg.statistics.median
       IN IF n % 2 = 1
          THEN median = numberToString(AtPosition((n + 1) \div 2))
          ELSE LET twice == AtPosition(n \div 2) + AtPosition(n \div 2 + 1)
               IN /\ Len(median) >= 3 /\ median[Len(median) - 1] = "."
                  /\ median = numberToString(twice \div 2)
                                \o <<".", IF twice % 2 = 1 THEN "5" ELSE "0">>

\* the median of the votes "8", "3", "13": the middle one after sorting
C27_Witness ==
    /\ Returned("statistics")
    /\ out[1].msg.votes = << <<"8">>, <<"3">>, <<"1", "3">> >>
    /\ out[1].msg.votingSystem = "fibonacci"
    /\ out[1].msg.statistics.median = <<"8">>
\* the median of the votes "5" and "8"
C27_WitnessEven ==
    /\ Returned("statistics")
    /\ out[1].msg.votes = << <<"5">>, <<"8">> >>
    /\ out[1].msg.votingSystem = "fibonacci"
    /\ out[1].msg.statistics.median = <<"6", ".", "5">>

(* ========================= claims: delivery order ====================== *)
\* an output sequence holds a message of the given type
Issues(o, type) == \E k \in DOMAIN o : o[k].msg.type = type
\* an output sequence holds the all-votes-in session_update
IssuesAllVotesIn(o) ==
    \E k \in DOMAIN o :
        /\ o[k].msg.type = "session_update"
        /\ "allVotesIn" \in DOMAIN o[k].msg

\* C28: the messages of a handler are issued, and so reach a connection, in the
\* order of its broadcast and send calls. Cast Vote: the all-votes-in
\* session_update is issued only by the last step of the handler, to the open
\* sockets of the session; that step follows the step that read the votes,
\* which follows the step that issued vote_updated to the same sockets, and no
\* other message is issued in between. Join (existing): the session_update of
\* the joiner is issued only by the last step of the handler, which follows the
\* step that issued participant_joined to the other members.
C28_IssueOrder ==
    [][\A i \in TaskIds :
        \* all-votes-in is the only message of the last step of a Cast Vote
        /\ ( StepOf(i) /\ IssuesAllVotesIn(out') )
           => /\ At(i, "cv_signal") /\ Len(out') = 1
              /\ Range(out'[1].to) = MembersOf(SessionOf(i))
        \* the last step follows the step that read the votes; that step
        \* issued nothing and left the registry as it was
        /\ ( tasks'[i].pc = "cv_signal" /\ StepOf(i) )
           => /\ At(i, "cv_count") /\ out' = <<>>
              /\ UNCHANGED registry
              /\ Len(out) = 1 /\ out[1].msg.type = "vote_updated"
        \* the step that read the votes follows the step that issued
        \* vote_updated, alone, to the open sockets of the session
        /\ ( tasks'[i].pc = "cv_count" /\ StepOf(i) )
           => /\ At(i, "cv_notify") /\ Len(out') = 1
              /\ out'[1].msg.type = "vote_updated"
              /\ Range(out'[1].to) = MembersOf(SessionOf(i))
              /\ UNCHANGED registry
        \* the joiner's session_update is the only message of the last step of
        \* a join of an existing session
        /\ ( At(i, "je_reply") /\ StepOf(i) )
           => /\ Len(out') = 1 /\ out'[1].msg.type = "session_update"
              /\ out'[1].to = <<tasks[i].conn>>
              /\ Len(out) = 1 /\ out[1].msg.type = "participant_joined"
        \* the last step follows the step that issued participant_joined,
        \* alone, to the other open sockets of the session
        /\ ( tasks'[i].pc = "je_reply" /\ StepOf(i) )
           => /\ Len(out') = 1 /\ out'[1].msg.type = "participant_joined"
              /\ Range(out'[1].to) = OthersOf(tasks[i].sid, tasks[i].conn)
      ]_vars

\* the all-votes-in signal has just been issued to both members of the room
C28_Witness ==
    /\ Len(out) = 1 /\ out[1].msg.type = "session_update"
    /\ "allVotesIn" \in DOMAIN out[1].msg
    /\ Range(out[1].to) = {1, 2}
    /\ Len(voteMap) = 2
\* a joiner has just been sent its session_update, after the other member was
\* sent participant_joined
C28_WitnessJoin ==
    /\ Len(out) = 1 /\ out[1].msg.type = "session_update"
    /\ "participants" \in DOMAIN out[1].msg
    /\ out[1].to = <<2>> /\ sock[1] = "open" /\ clientObj[1].sessionId = "S1"
    /\ voteMap # <<>>

(* ======================= claims: delivery failures ===================== *)
\* the transport of an open socket starts to fail: from now on socket.send
\* throws
SendFails(c) ==
    /\ sock[c] = "open" /\ Registered(c)
    /\ sock' = [sock EXCEPT ![c] = "failing"]
    /\ out' = <<>>
    /\ UNCHANGED <<store, clients, clientObj, tasks>>

\* Votes in the room while sockets close and sends start to fail; the handlers
\* interleave at their awaits.
BroadcastEvents ==
    \/ \E c \in Conns, i \in TaskIds : CastVote(c, i, "5")
    \/ \E c \in Conns, i \in TaskIds : Close(c, i)
    \/ \E c \in Conns : SendFails(c)
BroadcastSteps ==
    \E i \in TaskIds :
        \/ CastVoteStore(i) \/ CastVoteNotify(i) \/ CastVoteCount(i) \/ CastVoteSignal(i)
        \/ CloseNotify(i)
NextBroadcast == BroadcastEvents \/ BroadcastSteps
SpecBroadcast == RoomState /\ [][NextBroadcast]_vars

\* C29: a broadcast to session S passes over the sockets of S that are not
\* open or whose send fails and is delivered to every other registered open
\* socket bound to S (the excluded one apart); the handler goes on as it does
\* without the failure, and its stored vote stays stored.
C29_BroadcastSkipsFailures ==
    [][\A i \in TaskIds :
        StepOf(i)
        => /\ \A k \in DOMAIN out' :
                 out'[k].kind = "broadcast"
                 => Range(out'[k].to)
                      = {d \in Conns : /\ Registered(d) /\ sock[d] = "open"
                                       /\ clientObj[d].sessionId = out'[k].sid
                                       /\ d # out'[k].exclude}
           /\ ( At(i, "cv_notify") /\ Bound(tasks[i].conn) )
              => /\ Len(out') = 1 /\ out'[1].kind = "broadcast"
                 /\ tasks'[i].pc = "cv_count"
                 /\ UNCHANGED store
                 /\ \E v \in DOMAIN voteMap' : voteMap'[v] = tasks[i].vote
           /\ At(i, "cv_signal")
              => /\ tasks'[i] = Idle
                 /\ UNCHANGED store
      ]_vars

\* socket 1 of the room fails: the vote of socket 2 is stored, vote_updated has
\* been delivered to socket 2 alone, and the handler goes on
C29_Witness ==
    /\ clients = <<1, 2>> /\ sock[1] = "failing" /\ sock[2] = "open"
    /\ clientObj[1].sessionId = "S1" /\ clientObj[2].sessionId = "S1"
    /\ Len(out) = 1 /\ out[1].kind = "broadcast" /\ out[1].msg.type = "vote_updated"
    /\ out[1].to = <<2>>
    /\ \E i \in TaskIds : tasks[i].pc = "cv_count" /\ tasks[i].conn = 2
    /\ \E v \in DOMAIN voteMap : voteMap[v].participantId = 2
\* socket 1 is closed and still registered: vote_updated went to socket 2 alone
C29_WitnessClosed ==
    /\ clients = <<1, 2>> /\ sock[1] = "closed" /\ sock[2] = "open"
    /\ clientObj[1].sessionId = "S1"
    /\ Len(out) = 1 /\ out[1].kind = "broadcast" /\ out[1].msg.type = "vote_updated"
    /\ out[1].to = <<2>>

(* --------------------------- inbound frames ---------------------------- *)
\* the type of an envelope that has no type member
NoType == "undefined"
\* the case labels of the switch; MessageType.UPDATE_STORY is undefined and
\* labels no case
HandledTypes ==
    {"join_session", "leave_session", "cast_vote", "reveal_votes", "reset_voting",
     "set_story", "add_story", "get_stories", "set_current_story"}
\* inbound texts the handlers above do not cover, by what the dispatch looks
\* at: whether the text is JSON and whether the JSON is an object; the type
\* member of the object; whether the text contains "type":"ping" (it does not
\* when the member is written with a space after the colon)
Frames ==
    [json : {"invalid"}, type : {NoType}, ping : BOOLEAN]
    \cup [json : {"scalar"}, type : {NoType}, ping : {FALSE}]
    \cup [json : {"object"}, type : {NoType, "bogus", "vote_updated"}, ping : {FALSE}]
    \cup [json : {"object"}, type : {"ping"}, ping : BOOLEAN]

\* the keep-alive test that never matches
PingShortcutNever(frame) == FALSE
\* messageStr.includes('"type":"ping"')
PingShortcut(frame) == frame.ping

\* the message handler on a text that names no handled event: pong for the
\* keep-alive; JSON.parse throws a SyntaxError, messageSchema.parse a ZodError,
\* both answered by the catch block; an accepted type without a case gets
\* "Unsupported message type"
Message(c, frame) ==
    /\ sock[c] = "open"
    /\ out' = IF PingShortcut(frame)
              THEN <<[kind |-> "send", sid |-> NoId, exclude |-> 0, to |-> <<c>>,
                      msg |-> [type |-> "pong"]]>>
              ELSE IF frame.json = "invalid"
              THEN <<sendError(c, "Error: SyntaxError")>>
              ELSE IF frame.json # "object" \/ ~messageSchemaAccepts(frame.type)
              THEN <<sendError(c, "Validation error")>>
              ELSE IF ~Registered(c)
              THEN <<sendError(c, "Client not found")>>
              ELSE <<sendError(c, "Unsupported message type")>>
    /\ UNCHANGED <<store, registry, tasks>>

\* Inbound texts of every kind between votes, leaves and joins in the room,
\* events handled one at a time.
DispatchSerialEvents ==
    \/ \E c \in Conns, frame \in Frames : Message(c, frame)
    \/ \E c \in Conns, i \in TaskIds : CastVote(c, i, "5")
    \/ \E c \in Conns, i \in TaskIds : LeaveSession(c, i)
    \/ \E c \in Conns, i \in TaskIds :
          JoinSession(c, i, [sessionId |-> "S1", name |-> "bob", isAdmin |-> FALSE,
                             sessionName |-> "", votingSystem |-> ""], NoId)
DispatchSerialSteps ==
    \E i \in TaskIds :
        \/ CastVoteStore(i) \/ CastVoteNotify(i) \/ CastVoteCount(i) \/ CastVoteSignal(i)
        \/ LeaveNotify(i)
        \/ JoinLookup(i) \/ JoinDecide(i) \/ JoinBind(i) \/ JoinReply(i)
NextDispatchSerial == (Quiet /\ DispatchSerialEvents) \/ DispatchSerialSteps
SpecDispatchSerial == RoomState /\ [][NextDispatchSerial]_vars

(* ========================= claims: inbound frames ====================== *)
\* the event names of the protocol: the values of MessageType and Update Story
ProtocolEventNames == MessageType \cup {"update_story"}
\* the text is not parseable as an envelope, or its type is no event name
Rejected(frame) == frame.json # "object" \/ frame.type \notin ProtocolEventNames
\* the handling of the text changed nothing: the store, the registry, the
\* handlers in progress, and so the binding of the socket, which still accepts
\* events
Discarded(c) ==
    /\ UNCHANGED <<store, registry, tasks>>
    /\ Bound(c)' = Bound(c)
    /\ Receives(c)'

\* C30 as stated: a text that is not parseable, or whose type is no event name
\* of the protocol, is answered with one error event to its socket alone and
\* discarded.
C30_RejectedGetsError ==
    [][\A c \in Conns, frame \in Frames :
        ( Rejected(frame) /\ Message(c, frame) )
        => ErrorOnlyTo(out', c) /\ Discarded(c)
      ]_vars

\* C30 amended: such a text is answered with one error event to its socket
\* alone, unless it contains the keep-alive marker "type":"ping", which is
\* answered with one pong message to its socket alone; either way it is
\* discarded.
C30_RejectedGetsErrorOrPong ==
    [][\A c \in Conns, frame \in Frames :
        ( Rejected(frame) /\ Message(c, frame) )
        => /\ IF frame.ping
              THEN /\ Len(out') = 1 /\ out'[1].kind = "send"
                   /\ out'[1].msg = [type |-> "pong"] /\ out'[1].to = <<c>>
              ELSE ErrorOnlyTo(out', c)
           /\ Discarded(c)
      ]_vars

\* a text that is not JSON has just been answered with an error on socket 2,
\* which is bound as before; the votes stored before are still stored
C30_Witness ==
    /\ ErrorOnlyTo(out, 2) /\ out[1].msg.message = "Error: SyntaxError"
    /\ Bound(2) /\ Receives(2) /\ voteMap # <<>>
\* a text with the keep-alive marker has just been answered with pong
C30_WitnessPong ==
    /\ Len(out) = 1 /\ out[1].msg = [type |-> "pong"] /\ out[1].to = <<2>>
    /\ Bound(2) /\ voteMap # <<>>

(* ----------------------- client: shared-socket hook -------------------- *)
\* messages the client submits, named by the order of their submission
MaxSubmits == 3

\* messageQueue.unshift that puts the message at the tail
PutBackAtTail(message, queue) == Append(queue, message)
\* messageQueue.unshift(message)
PutBack(message, queue) == <<message>> \o queue

\* the module state of the hook, kept in slot 1: the queue, the readyState of
\* the WebSocket object ("none" when there is none), globalSocket and
\* globalConnectionPromise, the calls of sendWebSocketMessage suspended at
\* their await; and, to state properties, the number of messages submitted,
\* the messages passed to socket.send without a throw, in order, and what the
\* last step was
Hook(t) ==
    [i \in TaskIds |-> IF i = 1 THEN t ELSE Idle]
hook == tasks[1]
HookInit ==
    [pc |-> "hook", messageQueue |-> <<>>, readyState |-> "none",
     globalSocket |-> FALSE, globalConnectionPromise |-> "null", awaiting |-> 0,
     submitted |-> 0, sent |-> <<>>, last |-> "init", threw |-> FALSE]

\* the wire: what the step passed to socket.send
wireOf(messages) ==
    [k \in DOMAIN messages |->
        [kind |-> "wire", sid |-> NoId, exclude |-> 0, to |-> <<>>,
         msg |-> [type |-> "client", id |-> messages[k]]]]

\* processMessageQueue on the hook state h: nothing unless globalSocket is set
\* and open; else messages are shifted and sent until the queue is empty or a
\* send throws: n sends succeed, and the next message, if any, is put back
processMessageQueue(h, n, step) ==
    IF ~h.globalSocket \/ h.readyState # "open"
    THEN [h EXCEPT !.last = step, !.threw = FALSE]
    ELSE [h EXCEPT
            !.messageQueue =
                IF n < Len(h.messageQueue)
                THEN PutBack(h.messageQueue[n + 1],
                             SubSeq(h.messageQueue, n + 2, Len(h.messageQueue)))
                ELSE <<>>,
            !.sent = h.sent \o SubSeq(h.messageQueue, 1, n),
            !.last = step,
            !.threw = n < Len(h.messageQueue)]
\* what the call sends
processSends(h, n) ==
    IF ~h.globalSocket \/ h.readyState # "open" THEN <<>>
    ELSE wireOf(SubSeq(h.messageQueue, 1, n))

\* createWebSocketConnection: the promise in being, or a new socket
createWebSocketConnection(h) ==
    IF h.globalConnectionPromise # "null" THEN h
    ELSE [h EXCEPT !.globalConnectionPromise = "pending", !.readyState = "connecting"]

HookUnchanged == UNCHANGED <<store, registry>>

\* sendWebSocketMessage: push; process the queue when connected, else await
\* the connection
Submit(n) ==
    /\ hook.pc = "hook" /\ hook.submitted < MaxSubmits
    /\ LET pushed == [hook EXCEPT !.messageQueue = Append(@, hook.submitted + 1),
                                  !.submitted = @ + 1]
       IN IF pushed.globalSocket /\ pushed.readyState = "open"
          THEN /\ n \in 0..Len(pushed.messageQueue)
               /\ tasks' = Hook(processMessageQueue(pushed, n, "submit"))
               /\ out' = processSends(pushed, n)
          ELSE /\ n = 0
               /\ tasks' = Hook([createWebSocketConnection(pushed) EXCEPT
                                    !.awaiting = @ + 1, !.last = "submit",
                                    !.threw = FALSE])
               /\ out' = <<>>
    /\ HookUnchanged

\* the effect of the hook when it is mounted without a connection
Mount ==
    /\ hook.pc = "hook"
    /\ ~(hook.globalSocket /\ hook.readyState = "open")
    /\ hook.globalConnectionPromise = "null"
    /\ tasks' = Hook([createWebSocketConnection(hook) EXCEPT
                         !.last = "mount", !.threw = FALSE])
    /\ out' = <<>>
    /\ HookUnchanged

\* socket.onopen: set globalSocket, process the queue, resolve the promise
OnOpen(n) ==
    /\ hook.pc = "hook" /\ hook.readyState = "connecting"
    /\ hook.globalConnectionPromise = "pending"
    /\ LET opened == [hook EXCEPT !.readyState = "open", !.globalSocket = TRUE,
                                  !.globalConnectionPromise = "resolved"]
       IN /\ n \in 0..Len(opened.messageQueue)
          /\ tasks' = Hook(processMessageQueue(opened, n, "open"))
          /\ out' = processSends(opened, n)
    /\ HookUnchanged

\* a call of sendWebSocketMessage goes on after its await: the queue is
\* processed when the promise was resolved, nothing when it was rejected
Resume(n) ==
    /\ hook.pc = "hook" /\ hook.awaiting > 0
    /\ hook.globalConnectionPromise \in {"resolved", "rejected"}
    /\ LET resumed == [hook EXCEPT !.awaiting = @ - 1]
       IN IF hook.globalConnectionPromise = "resolved"
          THEN /\ n \in 0..Len(resumed.messageQueue)
               /\ (resumed.globalSocket /\ resumed.readyState = "open") \/ n = 0
               /\ tasks' = Hook(processMessageQueue(resumed, n, "resume"))
               /\ out' = processSends(resumed, n)
          ELSE /\ n = 0
               /\ tasks' = Hook([resumed EXCEPT !.last = "resume", !.threw = FALSE])
               /\ out' = <<>>
    /\ HookUnchanged

\* the connection is lost or cannot be made: readyState leaves OPEN or
\* CONNECTING; socket.onerror rejects a pending promise
Lost ==
    /\ hook.pc = "hook" /\ hook.readyState \in {"connecting", "open"}
    /\ tasks' = Hook([hook EXCEPT
                        !.readyState = "closed",
                        !.globalConnectionPromise =
                            IF @ = "pending" THEN "rejected" ELSE @,
                        !.last = "lost", !.threw = FALSE])
    /\ out' = <<>>
    /\ HookUnchanged

\* socket.onclose: globalSocket and the promise are cleared. The calls that
\* await the promise have gone on before, in the microtasks of the event that
\* settled it.
OnClose ==
    /\ hook.pc = "hook" /\ hook.readyState = "closed" /\ hook.awaiting = 0
    /\ tasks' = Hook([hook EXCEPT !.readyState = "none", !.globalSocket = FALSE,
                                  !.globalConnectionPromise = "null",
                                  !.last = "close", !.threw = FALSE])
    /\ out' = <<>>
    /\ HookUnchanged

HookStart ==
    /\ sock = [c \in Conns |-> "new"]
    /\ clients = <<>>
    /\ clientObj = [c \in Conns |-> FreshClient]
    /\ sessionMap = <<>>
    /\ participantMap = <<>>
    /\ voteMap = <<>>
    /\ voteIdCounter = 1
    /\ storyMap = <<>>
    /\ out = <<>>
    /\ tasks = Hook(HookInit)
NextHook ==
    \/ \E n \in 0..MaxSubmits : Submit(n)
    \/ Mount
    \/ \E n \in 0..MaxSubmits : OnOpen(n)
    \/ \E n \in 0..MaxSubmits : Resume(n)
    \/ Lost
    \/ OnClose
SpecHook == HookStart /\ [][NextHook]_vars

(* ======================= claims: the client's queue ==================== *)
\* C31: in the shared-socket hook the messages sent so far followed by the
\* messages in the queue are the messages submitted, in the order of their
\* submission, each once: nothing is lost, doubled or reordered, also when a
\* send throws and the message is put back. Messages are sent only on an open
\* connection, and when a connection opens the whole queue is sent unless a
\* send throws.
C31_QueueInOrder ==
    LET h == tasks[1] IN
    /\ h.sent \o h.messageQueue = [k \in 1..h.submitted |-> k]
    /\ out # <<>> => h.readyState = "open" /\ h.globalSocket
    /\ [k \in DOMAIN out |-> out[k].msg.id]
          = SubSeq(h.sent, Len(h.sent) - Len(out) + 1, Len(h.sent))
    /\ ( h.last = "open" /\ ~h.threw ) => h.messageQueue = <<>>

\* three messages were submitted without a connection; the connection opened,
\* the send of the second one threw, and it is at the head of the queue
C31_Witness ==
    LET h == tasks[1] IN
    /\ h.pc = "hook" /\ h.last = "open" /\ h.threw
    /\ h.sent = <<1>> /\ h.messageQueue = <<2, 3>>
\* the three messages queued without a connection were all sent when it opened
C31_WitnessReplayed ==
    LET h == tasks[1] IN
    /\ h.pc = "hook" /\ h.last = "open" /\ ~h.threw
    /\ h.sent = <<1, 2, 3>> /\ Len(out) = 3

(* ====================== claims: registry and store ===================== *)
\* C32: whenever no handler is in progress, every participant whose connected
\* flag is true is the participant of the registry entry of an open,
\* registered socket.
C32_ConnectedAreBound ==
    Quiet
    => \A k \in DOMAIN participantMap :
          participantMap[k].connected
          => \E c \in Conns :
                /\ Registered(c) /\ sock[c] = "open"
                /\ clientObj[c].participant # Undefined
                /\ clientObj[c].participant.id = participantMap[k].id

\* side check of C32 for the close handled while the socket's join awaits the
\* store: the only participant row is not left connected when no socket is open
\* (violated under Spec, as C32_ConnectedAreBound is)
C32_ClosedWhileJoining ==
    ( Quiet /\ Len(participantMap) = 1 /\ \A c \in Conns : sock[c] # "open" )
    => ~participantMap[1].connected

\* C33: each registry entry has both a participant and a session identifier or
\* neither, and the participant of an entry that has both belongs to the
\* session of the entry.
C33_EntryWhole ==
    \A c \in Conns :
        /\ (clientObj[c].participant = Undefined) <=> (clientObj[c].sessionId = NoId)
        /\ clientObj[c].participant # Undefined
           => clientObj[c].participant.sessionId = clientObj[c].sessionId

\* socket 1 is bound in S1 again after it left, and socket 2 is unbound
C33_Witness ==
    /\ Registered(1) /\ Bound(1) /\ clientObj[1].sessionId = "S1"
    /\ clientObj[1].participant.sessionId = "S1"
    /\ Registered(2) /\ ~Bound(2)
    /\ \E k \in DOMAIN participantMap : ~participantMap[k].connected

\* the vote rows a message carries
VotesIn(msg) ==
    (IF "vote" \in DOMAIN msg THEN {msg.vote} ELSE {})
    \cup (IF "votes" \in DOMAIN msg THEN Range(msg.votes) ELSE {})

\* C34: while a session's revealed flag is false, a message delivered to a
\* socket carries no vote of that session cast by a participant other than the
\* one bound to the socket.
C34_VotesSecretUntilReveal ==
    \A k \in DOMAIN out : \A d \in Range(out[k].to) : \A v \in VotesIn(out[k].msg) :
        ~sessionMap[v.sessionId].revealed
        => /\ clientObj[d].participant # Undefined
           /\ clientObj[d].participant.id = v.participantId

\* Votes in the room by participants who vote once, while members leave,
\* disconnect and join again; events handled one at a time.
OnceSerialEvents ==
    \/ \E c \in Conns, i \in TaskIds, value \in Values :
          /\ Bound(c) => getVote(clientObj[c].participant.id,
                                 clientObj[c].sessionId) = Undefined
          /\ CastVote(c, i, value)
    \/ \E c \in Conns, i \in TaskIds : LeaveSession(c, i)
    \/ \E c \in Conns, i \in TaskIds : Close(c, i)
    \/ \E c \in Conns, i \in TaskIds, name \in Names :
          JoinSession(c, i, [sessionId |-> "S1", name |-> name, isAdmin |-> FALSE,
                             sessionName |-> "", votingSystem |-> ""], NoId)
NextOnceSerial ==
    \/ Quiet /\ OnceSerialEvents
    \/ \E i \in TaskIds :
          \/ CastVoteStore(i) \/ CastVoteNotify(i) \/ CastVoteCount(i)
          \/ CastVoteSignal(i)
          \/ LeaveNotify(i) \/ CloseNotify(i)
          \/ JoinLookup(i) \/ JoinDecide(i) \/ JoinBind(i) \/ JoinReply(i)
SpecOnceSerial == RoomState /\ [][NextOnceSerial]_vars

\* C35: a Cast Vote that stores a participant's first vote for session S ends
\* with the all-votes-in broadcast to S if and only if every participant of S
\* with connected = true then has a stored vote for S, whatever votes were left
\* behind by participants who have left or disconnected.
C35_SignalWhenAllVoted ==
    [][\A i \in TaskIds :
        ( At(i, "cv_signal") /\ StepOf(i) )
        => ( SignalsAllVotesIn(out', SessionOf(i))
             <=> \A k \in ConnectedOf(SessionOf(i)) :
                    VotesOf(SessionOf(i), participantMap[k].id) # {} )
      ]_vars

\* the first socket, bound to the administrator ann in the room states
Requester == CHOOSE c \in Conns : \A d \in Conns : c <= d
\* Reveals, resets, story additions and story selections requested on the
\* administrator's socket of the room while that socket leaves and joins again,
\* handlers interleaving at every await.
NextRoundLeave ==
    \/ \E i \in TaskIds : RevealVotes(Requester, i)
    \/ \E i \in TaskIds : ResetVoting(Requester, i)
    \/ \E i \in TaskIds : AddStory(Requester, i, <<"t">>, <<"l">>)
    \/ \E i \in TaskIds, storyId \in 1..MaxStories :
          SetCurrentStory(Requester, i, storyId)
    \/ \E i \in TaskIds : LeaveSession(Requester, i)
    \/ \E i \in TaskIds, name \in Names :
          JoinSession(Requester, i,
                      [sessionId |-> "S1", name |-> name, isAdmin |-> FALSE,
                       sessionName |-> "", votingSystem |-> ""], NoId)
    \/ \E i \in TaskIds :
          \/ RevealFetch(i) \/ RevealNotify(i)
          \/ ResetCheck(i) \/ ResetFind(i) \/ ResetMarked(i) \/ ResetUpdate(i)
          \/ ResetStories(i) \/ ResetNotify(i)
          \/ AddStoryNotify(i)
          \/ SetCurrentUpdate(i) \/ SetCurrentReset(i) \/ SetCurrentNotify(i)
          \/ LeaveNotify(i)
          \/ JoinLookup(i) \/ JoinDecide(i) \/ JoinBind(i) \/ JoinVotes(i) \/ JoinReply(i)
SpecRoundLeave == RoomState /\ [][NextRoundLeave]_vars

\* the messages that describe a session, and the session they describe
RoundTypes == {"votes_revealed", "voting_reset", "vote_updated", "story_added",
               "story_updated"}
Describes(msg) ==
    IF "session" \in DOMAIN msg THEN msg.session.id
    ELSE IF "vote" \in DOMAIN msg THEN msg.vote.sessionId
    ELSE msg.story.sessionId

\* C36: a votes-revealed, voting-reset, vote-updated or story message that
\* describes session S is delivered to exactly the open sockets bound to S at
\* delivery time, also when the requester's Leave or Join was handled while
\* the handler awaited the store: never to an Unbound socket or to a member of
\* another session.
C36_RoundMessagesToMembers ==
    \A k \in DOMAIN out :
        ( out[k].kind = "broadcast" /\ out[k].msg.type \in RoundTypes )
        => Range(out[k].to) = MembersOf(Describes(out[k].msg))

\* Two sessions that each have an administrator.  The socket of the second
\* session adds a story and votes; the socket of the first session sends every
\* event (votes, reveals, resets, story additions, edits and selections, leave
\* and close).  Events are handled one at a time.
NextTwoRooms ==
    \/ Quiet /\ \E c \in Conns, i \in TaskIds : CastVote(c, i, "5")
    \/ Quiet /\ \E c \in Conns, i \in TaskIds :
                   /\ Bound(c) => getSessionStories(clientObj[c].sessionId) = <<>>
                   /\ AddStory(c, i, <<"t">>, <<"l">>)
    \/ Quiet /\ \E i \in TaskIds : RevealVotes(Requester, i)
    \/ Quiet /\ \E i \in TaskIds : ResetVoting(Requester, i)
    \/ Quiet /\ \E i \in TaskIds, storyId \in 1..MaxStories :
                   SetCurrentStory(Requester, i, storyId)
    \/ Quiet /\ \E i \in TaskIds, storyId \in 0..MaxStories :
                   SetStory(Requester, i, [story |-> <<"u", " ", "(", "l", ")">>,
                                           storyId |-> storyId, update |-> storyId # 0])
    \/ Quiet /\ \E i \in TaskIds : LeaveSession(Requester, i)
    \/ Quiet /\ \E i \in TaskIds : Close(Requester, i)
    \/ \E i \in TaskIds :
          \/ CastVoteStore(i) \/ CastVoteNotify(i) \/ CastVoteCount(i)
          \/ CastVoteSignal(i)
          \/ RevealFetch(i) \/ RevealNotify(i)
          \/ ResetCheck(i) \/ ResetFind(i) \/ ResetMarked(i) \/ ResetUpdate(i)
          \/ ResetStories(i) \/ ResetNotify(i)
          \/ AddStoryNotify(i)
          \/ SetCurrentUpdate(i) \/ SetCurrentReset(i) \/ SetCurrentNotify(i)
          \/ SetStoryReset(i) \/ SetStoryNotify(i)
          \/ SetStoryUpdateCheck(i) \/ SetStoryUpdateList(i)
          \/ SetStoryUpdateSession(i) \/ SetStoryUpdateCurrent(i)
          \/ SetStoryUpdateNotify(i)
          \/ LeaveNotify(i) \/ CloseNotify(i)
SpecTwoRooms == TwoRoomsState /\ [][NextTwoRooms]_vars

\* the rows of session sid in the store
RowsOf(sid) ==
    [session |-> getSession(sid), participants |-> getSessionParticipants(sid),
     stories |-> getSessionStories(sid), votes |-> getSessionVotes(sid)]

\* C37: every step of a handler that runs for a socket bound to session S
\* leaves the session row, participants, stories and votes of every other
\* session unchanged and delivers no message to a socket bound to another
\* session.
C37_OtherSessionsUntouched ==
    [][/\ \A i \in TaskIds :
            StepOf(i)
            => LET c == IF tasks[i] = Idle THEN tasks'[i].conn ELSE tasks[i].conn
               IN Bound(c)
                  => \A other \in SessionIds \ {clientObj[c].sessionId} :
                        /\ RowsOf(other)' = RowsOf(other)
                        /\ \A d \in Receivers(out') : clientObj[d].sessionId # other
       \* an event that is rejected at once writes nothing and answers its sender
       /\ tasks' = tasks
            => /\ \A sid \in SessionIds : RowsOf(sid)' = RowsOf(sid)
               /\ \A k \in DOMAIN out' : out'[k].kind = "send"
      ]_vars
\* a reset of S1 has deleted the vote of S1 and kept the vote of S2
C37_Witness ==
    /\ Len(out) = 1 /\ out[1].kind = "broadcast" /\ out[1].msg.type = "voting_reset"
    /\ out[1].to = <<1>>
    /\ voteIdCounter = 3
    /\ Len(voteMap) = 1 /\ voteMap[1].sessionId = "S2" /\ voteMap[1].id = 1

\* the participant rows a step inserts
NewRows == {k \in DOMAIN participantMap' : k \notin DOMAIN participantMap}

\* C38: participant rows are never removed and keep their identifier and their
\* isAdmin flag; a row with isAdmin = true is inserted only by the create path
\* of a Join, and the existing-session path of a Join, which is also the path
\* of a payload with isAdmin = true and no session name, inserts only rows with
\* isAdmin = false.
C38_AdminOnlyByCreate ==
    [][/\ Len(participantMap') >= Len(participantMap)
       /\ \A k \in DOMAIN participantMap :
            /\ participantMap'[k].id = participantMap[k].id
            /\ participantMap'[k].isAdmin = participantMap[k].isAdmin
       /\ \A k \in NewRows :
            participantMap'[k].isAdmin
            => \E i \in TaskIds : At(i, "jc_add") /\ StepOf(i)
       /\ \A i \in TaskIds :
            ( At(i, "je_decide") /\ StepOf(i) )
            => \A k \in NewRows : ~participantMap'[k].isAdmin
      ]_vars
\* a session holds its creator, an administrator, and a second participant
\* who joined it and is not one
C38_Witness ==
    /\ Len(participantMap) = 2
    /\ participantMap[1].isAdmin /\ ~participantMap[2].isAdmin
    /\ participantMap[1].sessionId = participantMap[2].sessionId
    /\ \E c \in Conns : Bound(c) /\ clientObj[c].participant.id = 2

\* C39: for a non-empty collection of votes that all have the same value,
\* calculateConsensus returns "Strong", whatever the number of votes.
C39_UnanimousIsStrong ==
    ( /\ Returned("consensus")
      /\ Len(out[1].msg.votes) > 0
      /\ \A k \in DOMAIN out[1].msg.votes : out[1].msg.votes[k] = out[1].msg.votes[1] )
    => out[1].msg.consensus = "Strong"

====
